---- MODULE Spec2Model ----
(***************************************************************************)
(* Model of the project cache of the portfolio API (src/server.js): the    *)
(* in-memory snapshot, the three on-disk encodings, the share-image cache, *)
(* the staleness check, the single-flight flag and the request handlers    *)
(* that read and refresh them.                                             *)
(*                                                                         *)
(* Node runs the handlers on one thread: the code of a handler between two *)
(* awaits is one atomic step.  A handler that awaits                       *)
(* fetchProjectsFromRemote is split into the step that runs up to the      *)
(* await (it leaves a task in `tasks`) and the step that runs from the     *)
(* await to the end of the handler.                                        *)
(***************************************************************************)
EXTENDS Integers, Sequences, FiniteSets, Bags

\* ------------------------------------------------------------------ bounds
MaxTicks == 2       \* clock advances per behaviour
MaxVer == 2         \* versions of the origin's content
MaxInflight == 2    \* handlers suspended in a scrape at the same time
MaxRecords == 2     \* records of a scrape result given to saveCacheToFile
MaxSkew == 2        \* milliseconds around an age of CACHE_TTL
MaxDay == 2         \* days a manifest's date names
MaxMedia == 2       \* files linked by a media listing
MaxLinks == 4       \* anchors of the root listing
MaxViewRecords == 3 \* records of a list given to the sort and the filters

\* --------------------------------------------------------------- constants
CACHE_TTL == 5 * 60 * 1000

\* JavaScript null / undefined: the empty tuple; a present value x is <<x>>.
NULL == <<>>
Some(x) == <<x>>

\* ----------------------------------------------------------------- strings
\* A string is the sequence of its UTF-16 code units.
Glow == <<71, 108, 111, 119>>
glow == <<103, 108, 111, 119>>
GLOWING == <<71, 76, 79, 87, 73, 78, 71>>
Art == <<65, 114, 116>>
PaddedGlow == <<32, 103, 108, 111, 119>>   \* " glow"
Ada == <<65, 100, 97>>
ada == <<97, 100, 97>>
Bo == <<66, 111>>

\* String.prototype.toLowerCase on the ASCII range
toLowerCase(s) ==
  [i \in DOMAIN s |-> IF s[i] >= 65 /\ s[i] <= 90 THEN s[i] + 32 ELSE s[i]]

\* s < t in the order of Array.prototype.sort() without a comparator
\* (code-unit lexicographic order)
StrLess(s, t) ==
  \E k \in 1..(Len(t)) :
     /\ \A i \in 1..(k - 1) : i <= Len(s) /\ s[i] = t[i]
     /\ k - 1 <= Len(s)
     /\ (k = Len(s) + 1 \/ s[k] < t[k])

\* ------------------------------------------------------------------- dates
\* The value of a date property.  A text is kept by its form and the day it
\* names: "iso" is YYYY-MM-DD, "long" is "Month D, YYYY", "other" is text that
\* names no date, "empty" is the empty string; "number" is a JSON number.
DateValue(form, day) == [form |-> form, day |-> day]
IsoDate(day) == DateValue("iso", day)
LongDate(day) == DateValue("long", day)
OtherText == DateValue("other", 0)
EmptyText == DateValue("empty", 0)
NumberDate(n) == DateValue("number", n)

\* JavaScript truthiness of a property that is NULL (missing) or <<value>>
Truthy(date) ==
  /\ date # NULL
  /\ date[1].form # "empty"
  /\ ~(date[1].form = "number" /\ date[1].day = 0)

\* new Date(value).getTime(): the day, or NULL for NaN
DateTime(value) ==
  IF value.form \in {"iso", "long", "number"} THEN Some(value.day) ELSE NULL

\* date.toISOString().split("T")[0]
toISODate(time) == IsoDate(time)

\* ------------------------------------------------------------------ origin
ProjectIds == {"a", "b", "c"}
UnknownId == "zz"
RequestIds == {"b", UnknownId}
RequestTags == {Glow}
RequestPersons == {Ada}

\* Whether the media listings of the origin can be read at version v: in the
\* even versions they cannot, and every record gets primaryImage null
MediaReadable(v) == v % 2 = 1

\* The record fetchProjectsFromRemote builds for a folder whose manifest was
\* read when the origin was at version v.  title carries the version, so two
\* scrapes of different versions give different records.
ProjectAt(id, v) ==
  IF id = "a"
    THEN [id |-> "a", title |-> v, date |-> Some(IsoDate(3)), tags |-> <<Glow>>,
          credits |-> <<[name |-> Ada]>>,
          primaryImage |-> IF MediaReadable(v) THEN Some("a/media/1.jpg") ELSE NULL]
  ELSE IF id = "b"
    THEN [id |-> "b", title |-> v, date |-> NULL, tags |-> <<glow, Art>>,
          credits |-> <<>>, primaryImage |-> NULL]
  ELSE [id |-> "c", title |-> v, date |-> Some(IsoDate(5)), tags |-> <<GLOWING>>,
        credits |-> <<[name |-> ada], [name |-> Bo]>>,
        primaryImage |-> IF MediaReadable(v) THEN Some("c/media/1.png") ELSE NULL]

\* Folders of the root listing at version v, in listing order: "a" always,
\* "b" in odd versions, "c" in even versions.
FoldersAt(v) == IF v % 2 = 1 THEN <<"a", "b">> ELSE <<"a", "c">>

\* Result of a scrape that read the origin at version v
ScrapeResult(v) == [i \in 1..Len(FoldersAt(v)) |-> ProjectAt(FoldersAt(v)[i], v)]

\* A folder "c" whose manifest has an "id" property of its own: the record is
\* built as { id: projectName, ...manifest, ... }, so the manifest's id
\* replaces the folder name.
ManifestIdRecord == [ProjectAt("c", 1) EXCEPT !.id = "a"]

\* Records a scrape can build, and the lists of at most MaxRecords of them
\* (the origin's listing decides which folders are read, in which order)
ScrapedRecords == {ProjectAt(id, 1) : id \in ProjectIds} \cup {ManifestIdRecord}
ScrapeLists ==
  UNION {[1..n -> ScrapedRecords] : n \in 0..MaxRecords}

\* --------------------------------------------------- derived-view functions
HasDate(p) == Truthy(p.date)

\* The comparator of sortProjectsByDate: negative when a goes first.  The
\* difference of two Date objects is NaN when one of them is invalid, and
\* sort() takes a NaN from its comparator as 0.
DateCompare(a, b) ==
  IF ~HasDate(a) /\ ~HasDate(b) THEN 0
  ELSE IF ~HasDate(a) THEN 1
  ELSE IF ~HasDate(b) THEN -1
  ELSE IF DateTime(a.date[1]) = NULL \/ DateTime(b.date[1]) = NULL THEN 0
  ELSE DateTime(b.date[1])[1] - DateTime(a.date[1])[1]

\* Array.prototype.sort is stable: x goes after every element it does not
\* strictly precede.
RECURSIVE InsertByDate(_, _)
InsertByDate(sorted, x) ==
  IF sorted = <<>> THEN <<x>>
  ELSE IF DateCompare(sorted[Len(sorted)], x) <= 0 THEN Append(sorted, x)
  ELSE Append(InsertByDate(SubSeq(sorted, 1, Len(sorted) - 1), x),
              sorted[Len(sorted)])

RECURSIVE sortProjectsByDate(_)
sortProjectsByDate(projects) ==
  IF projects = <<>> THEN <<>>
  ELSE InsertByDate(sortProjectsByDate(SubSeq(projects, 1, Len(projects) - 1)),
                    projects[Len(projects)])

\* s.includes(t)
Includes(s, t) ==
  \E k \in 0..(Len(s) - Len(t)) : SubSeq(s, k + 1, k + Len(t)) = t

\* Variant: a tag matches when it contains the requested name
filterProjectsByTag_Substring(projects, tagName) ==
  SelectSeq(projects,
            LAMBDA p : \E i \in DOMAIN p.tags :
                          Includes(toLowerCase(p.tags[i]), toLowerCase(tagName)))

filterProjectsByTag(projects, tagName) ==
  SelectSeq(projects,
            LAMBDA p : \E i \in DOMAIN p.tags :
                          toLowerCase(p.tags[i]) = toLowerCase(tagName))

filterProjectsByPerson(projects, personName) ==
  SelectSeq(projects,
            LAMBDA p : \E i \in DOMAIN p.credits :
                          toLowerCase(p.credits[i].name) = toLowerCase(personName))

\* String.prototype.trim (spaces only)
RECURSIVE trim(_)
trim(s) ==
  IF s = <<>> THEN s
  ELSE IF s[1] = 32 THEN trim(Tail(s))
  ELSE IF s[Len(s)] = 32 THEN trim(SubSeq(s, 1, Len(s) - 1))
  ELSE s

RECURSIVE SortStrings(_)
SortStrings(S) ==
  IF S = {} THEN <<>>
  ELSE LET m == CHOOSE x \in S : \A y \in S \ {x} : StrLess(x, y)
       IN  <<m>> \o SortStrings(S \ {m})

\* A tag is added when it is truthy (not ""), and it is added trimmed
getAllTags(projects) ==
  SortStrings(UNION {{trim(projects[i].tags[j]) :
                        j \in {n \in DOMAIN projects[i].tags : projects[i].tags[n] # <<>>}} :
                     i \in DOMAIN projects})

FindById(projects, id) ==
  IF \E i \in DOMAIN projects : projects[i].id = id
    THEN Some(projects[CHOOSE i \in DOMAIN projects :
                         /\ projects[i].id = id
                         /\ \A j \in 1..(i - 1) : projects[j].id # id])
    ELSE NULL

\* -------------------------------------------------------------- the scrape
\* fetchProjectsFromRemote reads the origin: the root listing, and for every
\* candidate folder its manifest.json and the listing of its media/ folder.
\* A response has a status: "rejected" (fetch threw), "404" (not ok), "200".
Slash == 47
Dot == 46

HrefA == <<97, 47>>                                          \* a/
HrefB == <<98, 47>>                                          \* b/
HrefTemplate == <<95, 116, 101, 109, 112, 108, 97, 116, 101, 47>>  \* _template/
HrefParent == <<46, 46, 47>>                                 \* ../
HrefSelf == <<46, 47>>                                       \* ./
HrefDotA == <<46, 47, 97, 47>>                               \* ./a/
HrefFile == <<102>>                                          \* f

FolderA == <<97>>
FolderB == <<98>>
Template == <<95, 116, 101, 109, 112, 108, 97, 116, 101>>

\* An anchor <a href="..."> matches /<a href="([^"]+\/)">/ when its href has
\* at least one character before a final slash
IsDirectoryLink(href) == Len(href) >= 2 /\ href[Len(href)] = Slash

\* String.prototype.replace(c, ""): the first occurrence of c is removed
RemoveFirst(str, c) ==
  IF \E i \in DOMAIN str : str[i] = c
    THEN LET i == CHOOSE k \in DOMAIN str :
                    str[k] = c /\ \A j \in 1..(k - 1) : str[j] # c
         IN  SubSeq(str, 1, i - 1) \o SubSeq(str, i + 1, Len(str))
    ELSE str

\* const folderName = match[1].replace("/", "")
FolderNameOf(href) == RemoveFirst(href, Slash)

IsCandidate(folderName) ==
  /\ folderName # <<>>
  /\ folderName # <<Dot, Dot>>
  /\ folderName # <<Dot>>
  /\ folderName # Template

\* projectFolders, from the hrefs of the listing's anchors in listing order
projectFolders(hrefs) ==
  LET links == SelectSeq(hrefs, IsDirectoryLink)
      names == [i \in DOMAIN links |-> FolderNameOf(links[i])]
  IN  SelectSeq(names, IsCandidate)

\* path.extname(filename): trailing slashes are ignored, the base name is
\* what follows the last slash before them, and the extension goes from the
\* last dot of the base name; "" when there is no dot, when the base name
\* starts with its last dot, and for the base name ".."
RECURSIVE StripSlashes(_)
StripSlashes(str) ==
  IF str # <<>> /\ str[Len(str)] = Slash
    THEN StripSlashes(SubSeq(str, 1, Len(str) - 1))
    ELSE str

BaseName(filename) ==
  LET name == StripSlashes(filename)
  IN  IF \E i \in DOMAIN name : name[i] = Slash
        THEN LET k == CHOOSE i \in DOMAIN name :
                        name[i] = Slash /\ \A j \in (i + 1)..Len(name) : name[j] # Slash
             IN  SubSeq(name, k + 1, Len(name))
        ELSE name

extname(filename) ==
  LET base == BaseName(filename)
  IN  IF base # <<Dot, Dot>> /\ \E i \in DOMAIN base : base[i] = Dot
        THEN LET k == CHOOSE i \in DOMAIN base :
                        base[i] = Dot /\ \A j \in (i + 1)..Len(base) : base[j] # Dot
             IN  IF k = 1 THEN <<>> ELSE SubSeq(base, k, Len(base))
        ELSE <<>>

ExtJpg == <<46, 106, 112, 103>>
ExtJpeg == <<46, 106, 112, 101, 103>>
ExtPng == <<46, 112, 110, 103>>
ExtGif == <<46, 103, 105, 102>>
ExtMp4 == <<46, 109, 112, 52>>
ExtMov == <<46, 109, 111, 118>>
ExtAvi == <<46, 97, 118, 105>>
ExtWebm == <<46, 119, 101, 98, 109>>
ExtMd == <<46, 109, 100>>
ImageExts == {ExtJpg, ExtJpeg, ExtPng, ExtGif}
VideoExts == {ExtMp4, ExtMov, ExtAvi, ExtWebm}

\* Variant: the extension is compared as it is written
MediaType_CaseSensitive(filename) ==
  LET ext == extname(filename)
  IN  IF ext \in ImageExts THEN "image"
      ELSE IF ext \in VideoExts THEN "video"
      ELSE IF ext = ExtMd THEN "notes"
      ELSE ""

\* The type of a media file, "" for a file that is left out
MediaType(filename) ==
  LET ext == toLowerCase(extname(filename))
  IN  IF ext \in ImageExts THEN "image"
      ELSE IF ext \in VideoExts THEN "video"
      ELSE IF ext = ExtMd THEN "notes"
      ELSE ""

\* Array.prototype.sort() without a comparator, on strings
RECURSIVE InsertString(_, _)
InsertString(sorted, x) ==
  IF sorted = <<>> THEN <<x>>
  ELSE IF ~StrLess(x, sorted[Len(sorted)]) THEN Append(sorted, x)
  ELSE Append(InsertString(SubSeq(sorted, 1, Len(sorted) - 1), x),
              sorted[Len(sorted)])

RECURSIVE sortStrings(_)
sortStrings(strs) ==
  IF strs = <<>> THEN <<>>
  ELSE InsertString(sortStrings(SubSeq(strs, 1, Len(strs) - 1)), strs[Len(strs)])

\* What the origin has for a listed media file: whether its dimensions (image,
\* video) or its content (notes) can be resolved, and then their value
MediaFile(filename, ok) == [filename |-> filename, ok |-> ok]
Dimensions == <<4, 3>>
NotesContent == <<104, 105>>

FileNamed(files, filename) ==
  files[CHOOSE i \in DOMAIN files : files[i].filename = filename]

\* One element of allMedia.  getImageDimensions and getVideoDimensions catch
\* every error and return null; the notes fetch leaves content "" when it is
\* not ok or throws.
MediaItem(file) ==
  [filename |-> file.filename,
   type |-> MediaType(file.filename),
   dimensions |-> IF MediaType(file.filename) \in {"image", "video"} /\ file.ok
                    THEN Dimensions ELSE NULL,
   content |-> IF MediaType(file.filename) = "notes" /\ file.ok
                 THEN NotesContent ELSE <<>>]

\* mediaFiles, in the order of the listing
mediaFiles(files) ==
  LET kept == SelectSeq(files, LAMBDA f : MediaType(f.filename) # "")
  IN  [i \in DOMAIN kept |-> kept[i].filename]

imageFiles(files) ==
  LET kept == SelectSeq(files, LAMBDA f : MediaType(f.filename) = "image")
  IN  [i \in DOMAIN kept |-> kept[i].filename]

\* Variant: a file whose dimensions or content cannot be resolved gets no item
allMedia_DropsFailed(files) ==
  LET resolved == SelectSeq(files, LAMBDA f : f.ok)
      sortedMediaFiles == sortStrings(mediaFiles(resolved))
  IN  [i \in DOMAIN sortedMediaFiles |->
         MediaItem(FileNamed(files, sortedMediaFiles[i]))]

\* Variant: the items in the order of the listing, without mediaFiles.sort()
allMedia_ListingOrder(files) ==
  LET sortedMediaFiles == mediaFiles(files)
  IN  [i \in DOMAIN sortedMediaFiles |->
         MediaItem(FileNamed(files, sortedMediaFiles[i]))]

allMedia(files) ==
  LET sortedMediaFiles == sortStrings(mediaFiles(files))
  IN  [i \in DOMAIN sortedMediaFiles |->
         MediaItem(FileNamed(files, sortedMediaFiles[i]))]

\* Variant: the first image of the listing, without imageFiles.sort()
primaryImageOf_FirstListed(files) ==
  IF imageFiles(files) = <<>> THEN NULL
  ELSE LET firstImageFilename == imageFiles(files)[1]
       IN  Some([filename |-> firstImageFilename,
                 dimensions |-> IF FileNamed(files, firstImageFilename).ok
                                  THEN Dimensions ELSE NULL])

primaryImageOf(files) ==
  IF imageFiles(files) = <<>> THEN NULL
  ELSE LET firstImageFilename == sortStrings(imageFiles(files))[1]
       IN  Some([filename |-> firstImageFilename,
                 dimensions |-> IF FileNamed(files, firstImageFilename).ok
                                  THEN Dimensions ELSE NULL])

\* The media block: media and primaryImage stay [] and null unless the
\* listing of media/ is fetched and ok
MediaOf(response) ==
  IF response.status = "200" THEN allMedia(response.files) ELSE <<>>

PrimaryImageOf(response) ==
  IF response.status = "200" THEN primaryImageOf(response.files) ELSE NULL

\* let formattedDate: set when manifest.date is truthy and parses
formattedDate(date) ==
  IF Truthy(date) /\ DateTime(date[1]) # NULL
    THEN Some(toISODate(DateTime(date[1])[1]))
    ELSE NULL

\* dateStr.includes(",") throws a TypeError when manifest.date is truthy and
\* not a string
DateThrows(date) == Truthy(date) /\ date[1].form = "number"

\* projectWithId = { id: projectName, ...manifest, date, media, primaryImage }
projectWithId(projectName, folder) ==
  [id |-> IF folder.manifest.id # NULL THEN folder.manifest.id[1] ELSE projectName,
   date |-> IF formattedDate(folder.manifest.date) # NULL
              THEN formattedDate(folder.manifest.date)
              ELSE folder.manifest.date,
   media |-> MediaOf(folder.media),
   primaryImage |-> PrimaryImageOf(folder.media)]

\* Variant: no try/catch around the body of the loop
ProjectThrows_NoCatch(folder) ==
  \/ folder.manifest.status = "rejected"
  \/ /\ folder.manifest.status = "200"
     /\ \/ folder.manifest.json \in {"invalid", "null"}
        \/ DateThrows(folder.manifest.date)

\* Whether an exception leaves the body of the loop for a folder: every one
\* is caught by catch (projectError)
ProjectThrows(folder) == FALSE

\* Whether the body of the loop pushes a record: the manifest is fetched, ok
\* and parsed by json(), and no statement up to projects.push throws
\* (manifest.date throws when the body is the JSON text null)
PushesRecord(folder) ==
  /\ folder.manifest.status = "200"
  /\ folder.manifest.json = "object"
  /\ ~DateThrows(folder.manifest.date)

\* The origin's answers.  A manifest: the status of its fetch, what its body
\* parses to (an object, the value null, or "invalid" when json() throws), and
\* its id and date properties (NULL when it has none).  A media listing: the status of its fetch and the files it links.
Manifest(status, json, id, date) ==
  [status |-> status, json |-> json, id |-> id, date |-> date]
MediaListing(status, files) == [status |-> status, files |-> files]
Folder(manifest, media) == [manifest |-> manifest, media |-> media]
Root(status, hrefs) == [status |-> status, hrefs |-> hrefs]

PlainManifest == Manifest("200", "object", NULL, Some(IsoDate(1)))
PlainMedia == MediaListing("200", <<>>)
PlainFolder == Folder(PlainManifest, PlainMedia)
MissingFolder == Folder(Manifest("404", "object", NULL, NULL), MediaListing("404", <<>>))
PlainOrigin ==
  [root |-> Root("200", <<HrefA, HrefB>>),
   folders |-> [n \in {FolderA, FolderB} |-> PlainFolder]]

\* The folder of a candidate name; a name the origin has no folder for gives
\* 404 for every fetch
FolderAt(org, projectName) ==
  IF projectName \in DOMAIN org.folders THEN org.folders[projectName]
  ELSE MissingFolder

\* The call: not made yet ("idle"), in the loop over projectFolders
\* ("folders"), returned or threw
NotCalled == [pc |-> "idle", folders |-> <<>>, next |-> 1, projects |-> <<>>]

\* ------------------------------------------------------------------- state
VARIABLES
  now,              \* Date.now()
  originVer,        \* version of the content the origin serves
  projectsCache,    \* let projectsCache: NULL or <<records>>
  lastCacheUpdate,  \* let lastCacheUpdate: NULL or <<time>>
  isUpdatingCache,  \* let isUpdatingCache
  cacheFile,        \* projects-cache.json: NULL or <<[projects, lastUpdate]>>
  sortedFile,       \* projects-sorted.json: NULL or <<records>>
  projectFiles,     \* projects/<id>.json: id -> NULL or <<record>>
  shareFiles,       \* share-images/<name>.jpg: name -> NULL or <<[mtime, from]>>
  tasks,            \* handlers suspended at an await
  lastDone,         \* how the last awaited scrape or rejected admin request
                    \* ended (observation only)
  expectedKey,      \* process.env.FCC_ADMIN_API_KEY; "" when it is not set
  origin,           \* what the origin answers to the fetches of a scrape
  scrape            \* a call of fetchProjectsFromRemote followed step by step

vars == <<now, originVer, projectsCache, lastCacheUpdate, isUpdatingCache,
          cacheFile, sortedFile, projectFiles, shareFiles, tasks, lastDone,
          expectedKey, origin, scrape>>

memVars == <<projectsCache, lastCacheUpdate>>
diskVars == <<cacheFile, sortedFile, projectFiles>>
envVars == <<now, originVer, expectedKey, origin, scrape>>
reqVars == <<now, originVer, lastDone, expectedKey, origin, scrape>>

ShareNames == {"homepage"}

\* The secret the deployment configures
FCC_ADMIN_API_KEY == "secret"

\* Number of clock advances that led to time t: the clock is observed at
\* multiples of CACHE_TTL after the start, which gives the ages 0, CACHE_TTL
\* (the boundary, not stale) and more (stale).
TickCount(t) == (t - 1) \div CACHE_TTL

\* tasks is a bag: two requests of the same route may be suspended at the same
\* time.  A task keeps what the rest of its handler writes to the state: its
\* route and the origin version at which its scrape began; the request
\* parameter only selects the response (see ColdFetchResponse).
NewTask(kind, route, from) ==
  [kind |-> kind, route |-> route, ver |-> originVer, from |-> from]
CanSuspend == BagCardinality(tasks) < MaxInflight
Suspend(t) == tasks (+) SetToBag({t})
Resume(t) == tasks (-) SetToBag({t})
Suspended == BagToSet(tasks)

\* Number of suspended handlers of the given kinds
InFlight(kinds) ==
  BagCardinality([t \in {u \in Suspended : u.kind \in kinds} |-> tasks[t]])

Init ==
  /\ now = 1
  /\ originVer = 1
  /\ projectsCache = NULL
  /\ lastCacheUpdate = NULL
  /\ isUpdatingCache = FALSE
  /\ cacheFile = NULL
  /\ sortedFile = NULL
  /\ projectFiles = [id \in ProjectIds |-> NULL]
  /\ shareFiles = [n \in ShareNames |-> NULL]
  /\ tasks = EmptyBag
  /\ lastDone = "none"
  /\ expectedKey = FCC_ADMIN_API_KEY
  /\ origin = PlainOrigin
  /\ scrape = NotCalled

\* ------------------------------------------------------------- cache store
\* saveCacheToFile(projects): the three encodings, written at time `now`.
\* forEach writes the per-id files in order, so the last record of an id wins;
\* files of ids that are not in `projects` are left as they are.
\* JSON.stringify(project): the text, as the value of each property it
\* names; a property whose value is undefined (date, when the manifest has
\* none) is left out, a null (primaryImage) is written.
PropertyNames == {"id", "title", "date", "tags", "credits", "primaryImage"}

JSONstringify(project) ==
  [name \in (IF project.date = NULL THEN PropertyNames \ {"date"} ELSE PropertyNames) |->
     IF name = "date" THEN project.date[1] ELSE project[name]]

HasProperty(json, name) == name \in DOMAIN json
Property(json, name) == json[name]

\* JSON.parse(text), as the code reads the object afterwards: a property that
\* is not in the text reads as undefined.
JSONparse(json) ==
  [id |-> Property(json, "id"), title |-> Property(json, "title"),
   date |-> IF HasProperty(json, "date") THEN Some(Property(json, "date")) ELSE NULL,
   tags |-> Property(json, "tags"), credits |-> Property(json, "credits"),
   primaryImage |-> Property(json, "primaryImage")]

\* What a file written with JSON.stringify gives back when it is read; the
\* list is converted once, record by record
StoredRecord(project) == JSONparse(JSONstringify(project))
StoredList(projects) ==
  CHOOSE stored \in {[i \in DOMAIN list |-> StoredRecord(list[i])] : list \in {projects}} : TRUE

\* Variant: the per-id files of ids that are not in `projects` are removed
PerIdFilesAfterSave_Pruned(projects) ==
  [id \in ProjectIds |->
     IF \E i \in DOMAIN projects : projects[i].id = id
       THEN Some(StoredRecord(projects[CHOOSE i \in DOMAIN projects :
                            /\ projects[i].id = id
                            /\ \A j \in (i + 1)..Len(projects) : projects[j].id # id]))
       ELSE NULL]

PerIdFilesAfterSave(projects) ==
  [id \in ProjectIds |->
     IF \E i \in DOMAIN projects : projects[i].id = id
       THEN Some(StoredRecord(projects[CHOOSE i \in DOMAIN projects :
                            /\ projects[i].id = id
                            /\ \A j \in (i + 1)..Len(projects) : projects[j].id # id]))
       ELSE projectFiles[id]]

\* Variant: the metadata file keeps the lastUpdate it had
saveCacheToFile_KeepsLastUpdate(projects) ==
  /\ cacheFile' = Some([projects |-> StoredList(projects),
                        lastUpdate |-> IF cacheFile # NULL THEN cacheFile[1].lastUpdate
                                       ELSE now])
  /\ sortedFile' = Some(StoredList(sortProjectsByDate(projects)))
  /\ projectFiles' = PerIdFilesAfterSave(projects)

saveCacheToFile(projects) ==
  /\ cacheFile' = Some([projects |-> StoredList(projects), lastUpdate |-> now])
  /\ sortedFile' = Some(StoredList(sortProjectsByDate(projects)))
  /\ projectFiles' = PerIdFilesAfterSave(projects)

\* getProjects(): loadProjectsFromFile() runs when the memory copy is null and
\* the metadata file exists; it sets projectsCache and lastCacheUpdate.
LoadsFromFile == projectsCache = NULL /\ cacheFile # NULL
ProjectsAfterGet ==
  IF LoadsFromFile THEN Some(cacheFile[1].projects) ELSE projectsCache
LastUpdateAfterGet ==
  IF LoadsFromFile THEN Some(cacheFile[1].lastUpdate) ELSE lastCacheUpdate
getProjects ==
  /\ projectsCache' = ProjectsAfterGet
  /\ lastCacheUpdate' = LastUpdateAfterGet

\* getProjectsFromFile(): cacheData.projects, or null without a file
getProjectsFromFile == IF cacheFile # NULL THEN Some(cacheFile[1].projects) ELSE NULL

\* loadCacheMetadata(): lastCacheUpdate after start-up
loadCacheMetadata == IF cacheFile # NULL THEN Some(cacheFile[1].lastUpdate) ELSE NULL

PerIdFile(id) == IF id \in ProjectIds THEN projectFiles[id] ELSE NULL

\* isShareImageCacheValid(cachePath)
isShareImageCacheValid(name) ==
  /\ shareFiles[name] # NULL
  /\ lastCacheUpdate # NULL
  /\ shareFiles[name][1].mtime > lastCacheUpdate[1]

\* Variant: the share images are left in place
clearShareImageCache_Skipped == UNCHANGED shareFiles

\* clearShareImageCache(): unlink every file of the directory
clearShareImageCache == shareFiles' = [n \in ShareNames |-> NULL]

\* ---------------------------------------------------- staleness controller
\* Variant: stale already at an age of exactly CACHE_TTL
isCacheStale_AtTtl(last, t) == last = NULL \/ t - last[1] >= CACHE_TTL

isCacheStale(last, t) == last = NULL \/ t - last[1] > CACHE_TTL

\* Variant: the early return does not look at the flag
SkipsUpdate_IgnoresFlag(updating, last, t) == ~isCacheStale(last, t)

\* The early return of updateCacheInBackground
SkipsUpdate(updating, last, t) == updating \/ ~isCacheStale(last, t)

\* updateCacheInBackground() up to its await, called with lastCacheUpdate = last
updateCacheInBackground(last) ==
  IF SkipsUpdate(isUpdatingCache, last, now)
    THEN UNCHANGED <<isUpdatingCache, tasks>>
    ELSE /\ CanSuspend
         /\ isUpdatingCache' = TRUE
         /\ tasks' = Suspend(NewTask("bg", "", <<>>))

\* ------------------------------------------------------------ environment
Tick ==
  /\ TickCount(now) < MaxTicks
  /\ now' = now + CACHE_TTL
  /\ UNCHANGED <<originVer, memVars, isUpdatingCache, diskVars, shareFiles, tasks,
                 lastDone, expectedKey, origin, scrape>>

\* The origin's content changes
OriginChanges ==
  /\ originVer < MaxVer
  /\ originVer' = originVer + 1
  /\ UNCHANGED <<now, memVars, isUpdatingCache, diskVars, shareFiles, tasks,
                 lastDone, expectedKey, origin, scrape>>

\* --------------------------------------------------------------- responses
\* What a handler sends: the status and the body (a sequence: the list, the
\* one record, the tag names, or nothing).
Response(status, body) == [status |-> status, body |-> body]

\* What a route computes from a project list
ViewOf(route, pid, pstr, projects) ==
  IF route = "by-person" THEN sortProjectsByDate(filterProjectsByPerson(projects, pstr))
  ELSE IF route = "by-tag" THEN sortProjectsByDate(filterProjectsByTag(projects, pstr))
  ELSE IF route = "tags" THEN getAllTags(projects)
  ELSE IF route = "list-all" THEN sortProjectsByDate(projects)
  ELSE FindById(projects, pid)

\* projects.find(...) ? res.json(project) : res.status(404)
FindResponse(pid, projects) ==
  IF FindById(projects, pid) # NULL
    THEN Response(200, FindById(projects, pid))
    ELSE Response(404, <<>>)

FilterRoutes == {"by-person", "tags", "by-tag"}

\* ------------------------------------------------- background refresh ends
\* updateCacheInBackground after the await: the scrape returned the origin's
\* content as of version v, a version it saw while it ran.
BgRefreshSucceedsWith(t, v) ==
  /\ t.kind = "bg"
  /\ v \in t.ver..originVer
  /\ projectsCache' = Some(ScrapeResult(v))
  /\ lastCacheUpdate' = Some(now)
  /\ saveCacheToFile(ScrapeResult(v))
  /\ clearShareImageCache
  /\ isUpdatingCache' = FALSE
  /\ tasks' = Resume(t)
  /\ lastDone' = "bg-ok"
  /\ UNCHANGED envVars

BgRefreshSucceeds(t) == \E v \in 1..MaxVer : BgRefreshSucceedsWith(t, v)

\* Variant: the catch drops the memory copy
BgRefreshFails_DropsCache(t) ==
  /\ t.kind = "bg"
  /\ isUpdatingCache' = FALSE
  /\ tasks' = Resume(t)
  /\ lastDone' = "bg-failed"
  /\ projectsCache' = NULL
  /\ UNCHANGED <<envVars, lastCacheUpdate, diskVars, shareFiles>>

\* Variant: the failed attempt counts as an update
BgRefreshFails_AdvancesLastUpdate(t) ==
  /\ t.kind = "bg"
  /\ isUpdatingCache' = FALSE
  /\ tasks' = Resume(t)
  /\ lastDone' = "bg-failed"
  /\ lastCacheUpdate' = Some(now)
  /\ UNCHANGED <<envVars, projectsCache, diskVars, shareFiles>>

\* fetchProjectsFromRemote threw: catch logs, finally clears the flag
BgRefreshFails(t) ==
  /\ t.kind = "bg"
  /\ isUpdatingCache' = FALSE
  /\ tasks' = Resume(t)
  /\ lastDone' = "bg-failed"
  /\ UNCHANGED <<envVars, memVars, diskVars, shareFiles>>

\* --------------------------------------------------------- GET /projects
ListAllCachedResponse == Response(200, sortedFile[1])

ListAllCached ==
  /\ sortedFile # NULL
  /\ updateCacheInBackground(lastCacheUpdate)
  /\ UNCHANGED <<reqVars, memVars, diskVars, shareFiles>>

ListAllCold ==
  /\ sortedFile = NULL
  /\ CanSuspend
  /\ tasks' = Suspend(NewTask("cold", "list-all", <<>>))
  /\ UNCHANGED <<reqVars, memVars, isUpdatingCache, diskVars, shareFiles>>

\* ---------------------------------------------- GET /projects/:projectId
GetByIdFromFileResponse(id) == Response(200, PerIdFile(id))

GetByIdFromFile(id) ==
  /\ PerIdFile(id) # NULL
  /\ updateCacheInBackground(lastCacheUpdate)
  /\ UNCHANGED <<reqVars, memVars, diskVars, shareFiles>>

GetByIdFromMemoryResponse(id) == FindResponse(id, ProjectsAfterGet[1])

\* No per-id file: the record is looked up in getProjects(); this branch does
\* not call updateCacheInBackground.
GetByIdFromMemory(id) ==
  /\ PerIdFile(id) = NULL
  /\ ProjectsAfterGet # NULL
  /\ getProjects
  /\ UNCHANGED <<reqVars, isUpdatingCache, diskVars, shareFiles, tasks>>

GetByIdCold(id) ==
  /\ PerIdFile(id) = NULL
  /\ ProjectsAfterGet = NULL
  /\ CanSuspend
  /\ tasks' = Suspend(NewTask("cold", "get-by-id", <<>>))
  /\ UNCHANGED <<reqVars, memVars, isUpdatingCache, diskVars, shareFiles>>

\* ------- GET /projects/person/:personName, /tags, /projects/tag/:tagName
FilterCachedResponse(route, pstr) ==
  Response(200, ViewOf(route, "", pstr, ProjectsAfterGet[1]))

FilterCached(route, pstr) ==
  /\ ProjectsAfterGet # NULL
  /\ getProjects
  /\ updateCacheInBackground(LastUpdateAfterGet)
  /\ UNCHANGED <<reqVars, diskVars, shareFiles>>

FilterCold(route, pstr) ==
  /\ ProjectsAfterGet = NULL
  /\ CanSuspend
  /\ tasks' = Suspend(NewTask("cold", route, <<>>))
  /\ UNCHANGED <<reqVars, memVars, isUpdatingCache, diskVars, shareFiles>>

ByPersonCached(personName) == FilterCached("by-person", personName)
ByPersonCold(personName) == FilterCold("by-person", personName)
TagsCached == FilterCached("tags", <<>>)
TagsCold == FilterCold("tags", <<>>)
ByTagCached(tagName) == FilterCached("by-tag", tagName)
ByTagCold(tagName) == FilterCold("by-tag", tagName)

\* ------------------------------------------- synchronous (cold) fetch ends
\* The cold branch of a read handler after `await fetchProjectsFromRemote()`,
\* which returned the origin's content as of version v.
\* GET /projects does not assign projectsCache; the other read routes do.
\* The project prerender route assigns the result to a const binding, which
\* throws before any state is written and is answered by its catch with 500.
\* The response of the request with parameter pid (an id) or pstr (a name)
ColdFetchResponse(route, pid, pstr, v) ==
  IF route = "prerender-project" THEN Response(500, <<>>)
  ELSE IF route = "get-by-id" THEN FindResponse(pid, ScrapeResult(v))
  ELSE Response(200, ViewOf(route, pid, pstr, ScrapeResult(v)))

\* Variant: the cold branch answers without writing the snapshot through
ColdFetchSucceedsWith_NoSave(t, v) ==
  /\ t.kind = "cold"
  /\ v \in t.ver..originVer
  /\ projectsCache' = IF t.route \in {"list-all", "prerender-project"}
                        THEN projectsCache ELSE Some(ScrapeResult(v))
  /\ lastCacheUpdate' = IF t.route = "prerender-project" THEN lastCacheUpdate
                                                          ELSE Some(now)
  /\ tasks' = Resume(t)
  /\ lastDone' = "cold-ok"
  /\ UNCHANGED <<envVars, isUpdatingCache, diskVars, shareFiles>>

ColdFetchSucceedsWith(t, v) ==
  /\ t.kind = "cold"
  /\ v \in t.ver..originVer
  /\ IF t.route = "prerender-project"
       THEN UNCHANGED <<memVars, diskVars>>
       ELSE /\ projectsCache' = IF t.route = "list-all" THEN projectsCache
                                                         ELSE Some(ScrapeResult(v))
            /\ lastCacheUpdate' = Some(now)
            /\ saveCacheToFile(ScrapeResult(v))
  /\ tasks' = Resume(t)
  /\ lastDone' = "cold-ok"
  /\ UNCHANGED <<envVars, isUpdatingCache, shareFiles>>

ColdFetchSucceeds(t) == \E v \in 1..MaxVer : ColdFetchSucceedsWith(t, v)

\* Variant: the catch answers an empty list instead of an error
ColdFetchFailsResponse_EmptyList(route, pid, pstr) ==
  IF route \in FilterRoutes /\ getProjectsFromFile # NULL
    THEN Response(200, ViewOf(route, pid, pstr, getProjectsFromFile[1]))
    ELSE Response(200, <<>>)

\* fetchProjectsFromRemote threw in a cold branch: the catch of the handler.
\* The filter routes try getProjectsFromFile() before answering 500.
ColdFetchFailsResponse(route, pid, pstr) ==
  IF route \in FilterRoutes /\ getProjectsFromFile # NULL
    THEN Response(200, ViewOf(route, pid, pstr, getProjectsFromFile[1]))
    ELSE Response(500, <<>>)

ColdFetchFails(t) ==
  /\ t.kind = "cold"
  /\ tasks' = Resume(t)
  /\ lastDone' = "cold-failed"
  /\ UNCHANGED <<envVars, memVars, isUpdatingCache, diskVars, shareFiles>>

\* --------------------------------------------------------- prerender routes
HomepagePrerender ==
  /\ updateCacheInBackground(lastCacheUpdate)
  /\ UNCHANGED <<reqVars, memVars, diskVars, shareFiles>>

ProjectPrerenderCachedResponse(id) == FindResponse(id, ProjectsAfterGet[1])

ProjectPrerenderCached(id) ==
  /\ ProjectsAfterGet # NULL
  /\ getProjects
  /\ updateCacheInBackground(LastUpdateAfterGet)
  /\ UNCHANGED <<reqVars, diskVars, shareFiles>>

ProjectPrerenderCold(id) ==
  /\ ProjectsAfterGet = NULL
  /\ CanSuspend
  /\ tasks' = Suspend(NewTask("cold", "prerender-project", <<>>))
  /\ UNCHANGED <<reqVars, memVars, isUpdatingCache, diskVars, shareFiles>>

\* /projects/prerender/tag/:tagName and /projects/prerender/person/:personName:
\* without a cache the page is rendered with a count of 0 and nothing else
\* runs; with a cache the page is rendered and updateCacheInBackground called.
CountPrerender ==
  /\ getProjects
  /\ IF ProjectsAfterGet = NULL
       THEN UNCHANGED <<isUpdatingCache, tasks>>
       ELSE updateCacheInBackground(LastUpdateAfterGet)
  /\ UNCHANGED <<reqVars, diskVars, shareFiles>>

TagPrerenderResponse(tagName) ==
  Response(200, IF ProjectsAfterGet = NULL THEN <<0>>
                ELSE <<Len(filterProjectsByTag(ProjectsAfterGet[1], tagName))>>)

PersonPrerenderResponse(personName) ==
  Response(200, IF ProjectsAfterGet = NULL THEN <<0>>
                ELSE <<Len(filterProjectsByPerson(ProjectsAfterGet[1], personName))>>)

TagPrerender(tagName) == CountPrerender
PersonPrerender(personName) == CountPrerender

\* ------------------------------------------------ GET /admin/refresh-cache
RequestKeys == {"secret", "wrong", ""}

\* The environment of the process: the secret is set, or it is not
ExpectedKeys == {FCC_ADMIN_API_KEY, ""}

\* Variant: any key that is given is accepted
authenticateAdmin_NoCompare(key) ==
  IF expectedKey = "" THEN 500
  ELSE IF key = "" THEN 401
  ELSE 0

\* authenticateAdmin: 0 when next() is called, else the status it answers.
\* An unset variable and an empty one are both falsy, and so are a missing
\* parameter and an empty one.
authenticateAdmin(key) ==
  IF expectedKey = "" THEN 500
  ELSE IF key = "" THEN 401
  ELSE IF key # expectedKey THEN 403
  ELSE 0

\* The middleware answers for either admin route; the handler does not run
AdminRejectedResponse(key) == Response(authenticateAdmin(key), <<>>)

AdminRejected(key) ==
  /\ authenticateAdmin(key) # 0
  /\ lastDone' = (IF authenticateAdmin(key) = 500 THEN "admin-500"
                  ELSE IF authenticateAdmin(key) = 401 THEN "admin-401"
                  ELSE "admin-403")
  /\ UNCHANGED <<envVars, memVars, isUpdatingCache, diskVars, shareFiles, tasks>>

\* ------------------------------------------------- GET /admin/cache-status
\* hasCachedData, projectCount, lastUpdate, isStale, isUpdating
CacheStatusResponse ==
  Response(200, <<getProjectsFromFile # NULL,
                  IF getProjectsFromFile # NULL THEN Len(getProjectsFromFile[1]) ELSE 0,
                  lastCacheUpdate,
                  isCacheStale(lastCacheUpdate, now),
                  isUpdatingCache>>)

CacheStatus(key) ==
  /\ authenticateAdmin(key) = 0
  /\ UNCHANGED vars

\* The 429 return sits inside the try block whose finally clears the flag.
FlagAfterBusyAnswer == FALSE

AdminRefreshBusyResponse == Response(429, <<>>)

AdminRefreshBusy(key) ==
  /\ authenticateAdmin(key) = 0
  /\ isUpdatingCache
  /\ isUpdatingCache' = FlagAfterBusyAnswer
  /\ UNCHANGED <<reqVars, memVars, diskVars, shareFiles, tasks>>

AdminRefreshStarts(key) ==
  /\ authenticateAdmin(key) = 0
  /\ ~isUpdatingCache
  /\ CanSuspend
  /\ isUpdatingCache' = TRUE
  /\ tasks' = Suspend(NewTask("admin", "admin-refresh", <<>>))
  /\ UNCHANGED <<reqVars, memVars, diskVars, shareFiles>>

\* The handler after the await, the scrape having returned newProjects
AdminRefreshReturns(t, newProjects) ==
  /\ t.kind = "admin"
  /\ lastCacheUpdate' = Some(now)
  /\ saveCacheToFile(newProjects)
  /\ clearShareImageCache
  /\ isUpdatingCache' = FALSE
  /\ tasks' = Resume(t)
  /\ lastDone' = "admin-ok"
  /\ UNCHANGED <<envVars, projectsCache>>

AdminRefreshSucceedsWith(t, v) ==
  /\ v \in t.ver..originVer
  /\ AdminRefreshReturns(t, ScrapeResult(v))

AdminRefreshSucceeds(t) == \E v \in 1..MaxVer : AdminRefreshSucceedsWith(t, v)

\* Variant: no finally block, the flag stays set when the scrape throws
AdminRefreshFails_KeepsFlag(t) ==
  /\ t.kind = "admin"
  /\ tasks' = Resume(t)
  /\ lastDone' = "admin-failed"
  /\ UNCHANGED <<envVars, memVars, isUpdatingCache, diskVars, shareFiles>>

AdminRefreshFailsResponse == Response(500, <<>>)

AdminRefreshFails(t) ==
  /\ t.kind = "admin"
  /\ isUpdatingCache' = FALSE
  /\ tasks' = Resume(t)
  /\ lastDone' = "admin-failed"
  /\ UNCHANGED <<envVars, memVars, diskVars, shareFiles>>

\* ------------------------------------------------ GET /homepage/share-image
\* The projects by date that have a primary image
ShareImageInputs(projects) ==
  SelectSeq(sortProjectsByDate(projects), LAMBDA p : p.primaryImage # NULL)

\* What the handler sends before its first await: the cached file, 400, or
\* nothing yet (status 0) when it goes on to download the images
HomepageShareImageResponse ==
  IF isShareImageCacheValid("homepage")
    THEN Response(200, shareFiles["homepage"][1].from)
  ELSE IF getProjectsFromFile = NULL THEN Response(400, <<>>)
  ELSE IF ShareImageInputs(getProjectsFromFile[1]) = <<>> THEN Response(400, <<>>)
  ELSE Response(0, <<>>)

HomepageShareImageCached ==
  /\ isShareImageCacheValid("homepage")
  /\ UNCHANGED vars

HomepageShareImageMissing ==
  /\ ~isShareImageCacheValid("homepage")
  /\ \/ getProjectsFromFile = NULL
     \/ /\ getProjectsFromFile # NULL
        /\ ShareImageInputs(getProjectsFromFile[1]) = <<>>
  /\ UNCHANGED vars

\* The handler awaits the image downloads and the composition
HomepageShareImageStarts ==
  /\ ~isShareImageCacheValid("homepage")
  /\ getProjectsFromFile # NULL
  /\ ShareImageInputs(getProjectsFromFile[1]) # <<>>
  /\ CanSuspend
  /\ tasks' = Suspend(NewTask("share", "share-homepage", getProjectsFromFile[1]))
  /\ UNCHANGED <<reqVars, memVars, isUpdatingCache, diskVars, shareFiles>>

\* composite.jpeg(...).toFile(cachePath), then the file is streamed
HomepageShareImageWritten(t) ==
  /\ t.kind = "share"
  /\ shareFiles' = [shareFiles EXCEPT !["homepage"] =
                      Some([mtime |-> now, from |-> t.from])]
  /\ tasks' = Resume(t)
  /\ UNCHANGED <<reqVars, memVars, isUpdatingCache, diskVars>>

\* ----------------------------------------------------------------- restart
\* The process is started again: module state is initialised, the suspended
\* handlers are gone, loadCacheMetadata() runs, the files stay.
Restart ==
  /\ projectsCache' = NULL
  /\ lastCacheUpdate' = loadCacheMetadata
  /\ isUpdatingCache' = FALSE
  /\ tasks' = EmptyBag
  /\ lastDone' = "none"
  /\ UNCHANGED <<envVars, diskVars, shareFiles>>

\* ------------------------------------------------ fetchProjectsFromRemote
\* The call up to the loop: the root listing is fetched; the call throws when
\* the fetch throws or the response is not ok, else the listing is parsed.
FetchListing ==
  /\ scrape.pc = "idle"
  /\ scrape' = IF origin.root.status # "200"
                 THEN [scrape EXCEPT !.pc = "threw"]
                 ELSE [pc |-> "folders",
                       folders |-> projectFolders(origin.root.hrefs),
                       next |-> 1,
                       projects |-> <<>>]
  /\ UNCHANGED <<now, originVer, expectedKey, origin, memVars, isUpdatingCache,
                 diskVars, shareFiles, tasks, lastDone>>

\* One turn of the loop, for projectFolders[next]
FetchProject ==
  /\ scrape.pc = "folders"
  /\ scrape.next <= Len(scrape.folders)
  /\ LET projectName == scrape.folders[scrape.next]
         folder == FolderAt(origin, projectName)
     IN  scrape' =
           IF ProjectThrows(folder) THEN [scrape EXCEPT !.pc = "threw"]
           ELSE [scrape EXCEPT
                   !.next = @ + 1,
                   !.projects = IF PushesRecord(folder)
                                  THEN Append(@, projectWithId(projectName, folder))
                                  ELSE @]
  /\ UNCHANGED <<now, originVer, expectedKey, origin, memVars, isUpdatingCache,
                 diskVars, shareFiles, tasks, lastDone>>

\* return projects
ScrapeReturns ==
  /\ scrape.pc = "folders"
  /\ scrape.next > Len(scrape.folders)
  /\ scrape' = [scrape EXCEPT !.pc = "returned"]
  /\ UNCHANGED <<now, originVer, expectedKey, origin, memVars, isUpdatingCache,
                 diskVars, shareFiles, tasks, lastDone>>

\* -------------------------------------------------------------------- spec
\* A read route answered from the cache
CachedRead ==
  \/ ListAllCached
  \/ \E id \in RequestIds : GetByIdFromFile(id)
  \/ \E id \in RequestIds : GetByIdFromMemory(id)
  \/ \E n \in RequestPersons : ByPersonCached(n)
  \/ TagsCached
  \/ \E g \in RequestTags : ByTagCached(g)

\* A read route that finds no cache and awaits a scrape
ColdRead ==
  \/ ListAllCold
  \/ \E id \in RequestIds : GetByIdCold(id)
  \/ \E n \in RequestPersons : ByPersonCold(n)
  \/ TagsCold
  \/ \E g \in RequestTags : ByTagCold(g)

PrerenderRequest ==
  \/ HomepagePrerender
  \/ \E id \in RequestIds : ProjectPrerenderCached(id)
  \/ \E id \in RequestIds : ProjectPrerenderCold(id)
  \/ \E g \in RequestTags : TagPrerender(g)
  \/ \E n \in RequestPersons : PersonPrerender(n)

AdminRequest ==
  \/ \E k \in RequestKeys : AdminRefreshBusy(k)
  \/ \E k \in RequestKeys : AdminRefreshStarts(k)

ShareRequest ==
  \/ HomepageShareImageStarts

RefreshEnds ==
  \/ \E t \in Suspended : BgRefreshSucceeds(t)
  \/ \E t \in Suspended : BgRefreshFails(t)
  \/ \E t \in Suspended : AdminRefreshSucceeds(t)
  \/ \E t \in Suspended : AdminRefreshFails(t)

ColdFetchEnds ==
  \/ \E t \in Suspended : ColdFetchSucceeds(t)
  \/ \E t \in Suspended : ColdFetchFails(t)

\* The cache engine: every route that reads or refreshes the snapshot
Next ==
  \/ Tick
  \/ OriginChanges
  \/ CachedRead
  \/ ColdRead
  \/ PrerenderRequest
  \/ AdminRequest
  \/ RefreshEnds
  \/ ColdFetchEnds
  \/ Restart

Spec == Init /\ [][Next]_vars

\* The share-image cache with the routes that fill the snapshot, refresh it
\* and invalidate the images
NextShare ==
  \/ Tick
  \/ OriginChanges
  \/ ListAllCached
  \/ ListAllCold
  \/ AdminRequest
  \/ ShareRequest
  \/ RefreshEnds
  \/ ColdFetchEnds
  \/ \E t \in Suspended : HomepageShareImageWritten(t)

SpecShare == Init /\ [][NextShare]_vars

\* The share-image cache with the refreshes that invalidate it: the admin
\* refresh writes the first snapshot, list-all reads start background refreshes
NextShareRefresh ==
  \/ Tick
  \/ OriginChanges
  \/ ListAllCached
  \/ AdminRequest
  \/ ShareRequest
  \/ RefreshEnds
  \/ \E t \in Suspended : HomepageShareImageWritten(t)

SpecShareRefresh == Init /\ [][NextShareRefresh]_vars

\* Read routes only: no admin request is made
NextReads ==
  \/ Tick
  \/ OriginChanges
  \/ CachedRead
  \/ ColdRead
  \/ PrerenderRequest
  \/ \E t \in Suspended : BgRefreshSucceeds(t)
  \/ \E t \in Suspended : BgRefreshFails(t)
  \/ ColdFetchEnds
  \/ Restart

SpecReads == Init /\ [][NextReads]_vars

\* The refresh flag with the routes that set and clear it: list-all, the admin
\* refresh and a restart, over an origin whose content stays as it is
NextRefresh ==
  \/ Tick
  \/ ListAllCached
  \/ ListAllCold
  \/ AdminRequest
  \/ RefreshEnds
  \/ ColdFetchEnds
  \/ Restart

SpecRefresh == Init /\ [][NextRefresh]_vars

\* The write-through with the read that follows it: admin refreshes whose
\* scrapes return any list of records, and get-by-id reads of the per-id files
NextSave ==
  \/ \E k \in RequestKeys : AdminRefreshStarts(k)
  \/ \E t \in Suspended : \E newProjects \in ScrapeLists :
        AdminRefreshReturns(t, newProjects)
  \/ \E id \in ProjectIds : GetByIdFromFile(id)

SpecSave == Init /\ [][NextSave]_vars

\* The staleness test at the millisecond: the process starts at a clock
\* reading within MaxSkew of CACHE_TTL after the first possible write, either
\* without a cache or with the snapshot an earlier process persisted at time u
\* (loadCacheMetadata() has set lastCacheUpdate to u).
PersistTimes == 1..(1 + MaxSkew)
StartTimes == (CACHE_TTL + 1 - MaxSkew)..(CACHE_TTL + 1 + MaxSkew)

InitStale ==
  /\ now \in StartTimes
  /\ originVer = 1
  /\ projectsCache = NULL
  /\ isUpdatingCache = FALSE
  /\ shareFiles = [n \in ShareNames |-> NULL]
  /\ tasks = EmptyBag
  /\ lastDone = "none"
  /\ expectedKey = FCC_ADMIN_API_KEY
  /\ origin = PlainOrigin
  /\ scrape = NotCalled
  /\ \/ /\ cacheFile = NULL
        /\ sortedFile = NULL
        /\ projectFiles = [id \in ProjectIds |-> NULL]
        /\ lastCacheUpdate = NULL
     \/ \E u \in PersistTimes :
          /\ cacheFile = Some([projects |-> StoredList(ScrapeResult(1)),
                               lastUpdate |-> u])
          /\ sortedFile = Some(StoredList(sortProjectsByDate(ScrapeResult(1))))
          /\ projectFiles =
               [id \in ProjectIds |->
                  IF FindById(ScrapeResult(1), id) # NULL
                    THEN Some(StoredRecord(FindById(ScrapeResult(1), id)[1]))
                    ELSE NULL]
          /\ lastCacheUpdate = Some(u)

\* One millisecond passes
Millisecond ==
  /\ now < CACHE_TTL + 1 + 2 * MaxSkew
  /\ now' = now + 1
  /\ UNCHANGED <<originVer, memVars, isUpdatingCache, diskVars, shareFiles, tasks,
                 lastDone, expectedKey, origin, scrape>>

NextStale ==
  \/ Millisecond
  \/ Tick
  \/ HomepagePrerender
  \/ \E t \in Suspended : BgRefreshSucceeds(t)
  \/ \E t \in Suspended : BgRefreshFails(t)

SpecStale == InitStale /\ [][NextStale]_vars

\* The admin routes behind authenticateAdmin, in a process whose secret is set
\* or is not, beside list-all
InitAdmin ==
  /\ now = 1
  /\ originVer = 1
  /\ projectsCache = NULL
  /\ lastCacheUpdate = NULL
  /\ isUpdatingCache = FALSE
  /\ cacheFile = NULL
  /\ sortedFile = NULL
  /\ projectFiles = [id \in ProjectIds |-> NULL]
  /\ shareFiles = [n \in ShareNames |-> NULL]
  /\ tasks = EmptyBag
  /\ lastDone = "none"
  /\ expectedKey \in ExpectedKeys
  /\ origin = PlainOrigin
  /\ scrape = NotCalled

NextAdmin ==
  \/ Tick
  \/ ListAllCached
  \/ ListAllCold
  \/ AdminRequest
  \/ \E k \in RequestKeys : AdminRejected(k)
  \/ \E k \in RequestKeys : CacheStatus(k)
  \/ RefreshEnds
  \/ ColdFetchEnds

SpecAdmin == InitAdmin /\ [][NextAdmin]_vars

\* One call of fetchProjectsFromRemote against an origin drawn from bounded
\* sets: either the folders a and b are listed and their content varies, or
\* the content is plain and the listing varies.
Days == 1..MaxDay
ManifestDates ==
  {NULL, Some(OtherText), Some(EmptyText), Some(NumberDate(MaxDay))}
    \cup {Some(IsoDate(d)) : d \in Days} \cup {Some(LongDate(d)) : d \in Days}

FailedManifests ==
  {Manifest("rejected", "object", NULL, NULL), Manifest("404", "object", NULL, NULL),
   Manifest("200", "invalid", NULL, NULL)}
OkManifests == {Manifest("200", "object", NULL, d) : d \in ManifestDates}
NullManifest == Manifest("200", "null", NULL, NULL)

Jpg1 == <<49, 46, 106, 112, 103>>       \* 1.jpg
Png0 == <<48, 46, 80, 78, 71>>          \* 0.PNG
VideoMp4 == <<118, 46, 109, 112, 52>>   \* v.mp4
NotesMd == <<110, 46, 109, 100>>        \* n.md
TextTxt == <<120, 46, 116, 120, 116>>   \* x.txt
ListedFiles ==
  {MediaFile(f, ok) : f \in {Jpg1, Png0, VideoMp4, NotesMd}, ok \in BOOLEAN}
    \cup {MediaFile(TextTxt, TRUE)}

\* Listings of at most MaxMedia files, each file listed once
FileLists ==
  {fs \in UNION {[1..n -> ListedFiles] : n \in 0..MaxMedia} :
     \A i, j \in DOMAIN fs : i # j => fs[i].filename # fs[j].filename}

MediaListings ==
  {MediaListing("rejected", <<>>), MediaListing("404", <<>>)}
    \cup {MediaListing("200", fs) : fs \in FileLists}

\* The content of folder a: any manifest over plain media, a plain manifest
\* over any media listing, or any manifest with a date over a missing media/
FolderContents ==
  {Folder(m, PlainMedia) : m \in FailedManifests \cup OkManifests \cup {NullManifest}}
    \cup {Folder(PlainManifest, l) : l \in MediaListings}
    \cup {Folder(m, MediaListing("404", <<>>)) : m \in OkManifests}

\* The content of folder b; its manifest can have an id property of its own
OtherContents ==
  {PlainFolder, Folder(Manifest("404", "object", NULL, NULL), PlainMedia),
   Folder(Manifest("200", "object", NULL, Some(NumberDate(MaxDay))), PlainMedia),
   Folder(Manifest("200", "object", Some(FolderA), Some(IsoDate(1))), PlainMedia)}

RootStatuses == {"rejected", "500", "200"}
ListedHrefs ==
  {HrefA, HrefB, HrefTemplate, HrefParent, HrefSelf, HrefDotA, HrefFile}
Listings == UNION {[1..n -> ListedHrefs] : n \in 0..MaxLinks}

ContentOrigins ==
  {[root |-> Root(st, <<HrefParent, HrefA, HrefB>>),
    folders |-> [n \in {FolderA, FolderB} |-> IF n = FolderA THEN fa ELSE fb]] :
     st \in RootStatuses, fa \in FolderContents, fb \in OtherContents}

ListingOrigins ==
  {[root |-> Root("200", hrefs),
    folders |-> [n \in {FolderA, FolderB} |-> PlainFolder]] : hrefs \in Listings}

InitScrape ==
  /\ now = 1
  /\ originVer = 1
  /\ projectsCache = NULL
  /\ lastCacheUpdate = NULL
  /\ isUpdatingCache = FALSE
  /\ cacheFile = NULL
  /\ sortedFile = NULL
  /\ projectFiles = [id \in ProjectIds |-> NULL]
  /\ shareFiles = [n \in ShareNames |-> NULL]
  /\ tasks = EmptyBag
  /\ lastDone = "none"
  /\ expectedKey = FCC_ADMIN_API_KEY
  /\ origin \in ContentOrigins \cup ListingOrigins
  /\ scrape = NotCalled

NextScrape ==
  \/ FetchListing
  \/ FetchProject
  \/ ScrapeReturns

SpecScrape == InitScrape /\ [][NextScrape]_vars

\* The sort and the tag filter on lists drawn from bounded sets: a process
\* started on the snapshot an earlier process persisted at time 1, read by
\* list-all and by-tag and replaced by admin refreshes.  Either the dates of
\* the records vary, or their tags do.
ViewIds == <<"a", "b", "c">>
ViewDates ==
  {NULL, Some(OtherText), Some(EmptyText), Some(LongDate(MaxDay))}
    \cup {Some(IsoDate(d)) : d \in Days}
ViewTags == {<<Glow>>, <<glow>>, <<GLOWING>>, <<Art, glow>>, <<PaddedGlow>>, <<>>}

ViewRecord(i, date, tags) ==
  [ProjectAt(ViewIds[((i - 1) % Len(ViewIds)) + 1], 1) EXCEPT !.date = date, !.tags = tags]

ViewLists ==
  UNION {{[i \in 1..n |-> ViewRecord(i, dates[i], <<Glow>>)] : dates \in [1..n -> ViewDates]}
           \cup {[i \in 1..n |-> ViewRecord(i, NULL, tags[i])] : tags \in [1..n -> ViewTags]} :
         n \in 0..MaxViewRecords}

InitViews ==
  /\ now = 1
  /\ originVer = 1
  /\ projectsCache = NULL
  /\ lastCacheUpdate = Some(1)
  /\ isUpdatingCache = FALSE
  /\ shareFiles = [n \in ShareNames |-> NULL]
  /\ tasks = EmptyBag
  /\ lastDone = "none"
  /\ expectedKey = FCC_ADMIN_API_KEY
  /\ origin = PlainOrigin
  /\ scrape = NotCalled
  /\ \E projects \in ViewLists :
       /\ cacheFile = Some([projects |-> StoredList(projects), lastUpdate |-> 1])
       /\ sortedFile = Some(StoredList(sortProjectsByDate(projects)))
       /\ projectFiles =
            [id \in ProjectIds |->
               IF \E i \in DOMAIN projects : projects[i].id = id
                 THEN Some(StoredRecord(projects[CHOOSE i \in DOMAIN projects :
                        /\ projects[i].id = id
                        /\ \A j \in (i + 1)..Len(projects) : projects[j].id # id]))
                 ELSE NULL]

NextViews ==
  \/ ListAllCached
  \/ \E tagName \in RequestTags : ByTagCached(tagName)
  \/ TagsCached
  \/ \E k \in RequestKeys : AdminRefreshStarts(k)
  \/ \E t \in Suspended : AdminRefreshSucceeds(t)

SpecViews == InitViews /\ [][NextViews]_vars

\* The writers and the loader of lastCacheUpdate: refreshes, cold fetches,
\* the lazy load of a by-tag read, and a restart
NextLoads ==
  \/ Tick
  \/ AdminRequest
  \/ \E tagName \in RequestTags : ByTagCached(tagName)
  \/ \E tagName \in RequestTags : ByTagCold(tagName)
  \/ RefreshEnds
  \/ ColdFetchEnds
  \/ Restart

SpecLoads == Init /\ [][NextLoads]_vars

\* The filter reads of a restarted process at the millisecond: a process
\* started without a cache or on a snapshot persisted about CACHE_TTL ago,
\* with the refreshes that write a snapshot and the restarts that follow
FilterRead ==
  \/ \E tagName \in RequestTags : ByTagCached(tagName)
  \/ \E tagName \in RequestTags : ByTagCold(tagName)
  \/ \E personName \in RequestPersons : ByPersonCached(personName)
  \/ \E personName \in RequestPersons : ByPersonCold(personName)
  \/ TagsCached
  \/ TagsCold

NextRestart ==
  \/ Millisecond
  \/ Tick
  \/ FilterRead
  \/ AdminRequest
  \/ RefreshEnds
  \/ ColdFetchEnds
  \/ Restart

SpecRestart == InitStale /\ [][NextRestart]_vars

\* An awaited scrape returns or throws (every network call and probe ends)
FairSpec == SpecRefresh /\ WF_vars(RefreshEnds) /\ WF_vars(ColdFetchEnds)

\* ================================================================= claims
\* A step in which a handler calls updateCacheInBackground()
CallsUpdate ==
  \/ ListAllCached
  \/ \E id \in RequestIds : GetByIdFromFile(id)
  \/ \E n \in RequestPersons : ByPersonCached(n)
  \/ TagsCached
  \/ \E g \in RequestTags : ByTagCached(g)
  \/ HomepagePrerender
  \/ \E id \in RequestIds : ProjectPrerenderCached(id)
  \/ (ProjectsAfterGet # NULL /\ CountPrerender)

CachePresent == cacheFile # NULL /\ sortedFile # NULL
RefreshInFlight == InFlight({"bg", "admin"})
ReadRoutes == {"list-all", "get-by-id", "by-person", "tags", "by-tag"}

\* C1: in every interleaving of read requests and admin refresh requests at
\* most one refresh scrape (started by updateCacheInBackground or by the admin
\* refresh handler) is in flight.
C1_AtMostOneRefresh == RefreshInFlight <= 1

\* C2: updateCacheInBackground called while isUpdatingCache is true starts no
\* scrape and changes no state (the handler's getProjects() aside); so with
\* read requests only, at most one background scrape is in flight however many
\* reads arrive before it completes.
C2_NoOpWhileUpdating ==
  /\ [](InFlight({"bg"}) <= 1)
  /\ [][(isUpdatingCache /\ CallsUpdate) =>
          /\ UNCHANGED <<isUpdatingCache, tasks, diskVars, shareFiles>>
          /\ projectsCache' = ProjectsAfterGet
          /\ lastCacheUpdate' = LastUpdateAfterGet]_vars

C2_Witness ==
  /\ isUpdatingCache
  /\ InFlight({"bg"}) = 1
  /\ CachePresent
  /\ lastCacheUpdate # NULL
  /\ isCacheStale(lastCacheUpdate, now)

\* C3 (as claimed): a read answered from an existing cache whose age exceeds
\* CACHE_TTL, with no refresh in flight, leaves the cache files as they are
\* and starts exactly one background scrape.
StaleIdle ==
  /\ CachePresent
  /\ lastCacheUpdate # NULL
  /\ now - lastCacheUpdate[1] > CACHE_TTL
  /\ ~isUpdatingCache
  /\ RefreshInFlight = 0

C3_StaleReadStartsOneScrape ==
  [][(StaleIdle /\ CachedRead) =>
       /\ InFlight({"bg"})' = InFlight({"bg"}) + 1
       /\ UNCHANGED diskVars]_vars

\* C4: with a cache present and an age of at most CACHE_TTL, a read is
\* answered from the cache and starts no scrape: tasks and isUpdatingCache
\* stay as they are.
Warm ==
  /\ CachePresent
  /\ lastCacheUpdate # NULL
  /\ now - lastCacheUpdate[1] <= CACHE_TTL

C4_WarmReadStartsNoScrape ==
  [][(Warm /\ (CachedRead \/ CallsUpdate)) =>
       UNCHANGED <<tasks, isUpdatingCache, diskVars, shareFiles>>]_vars

C4_Witness ==
  /\ CachePresent
  /\ projectsCache # NULL
  /\ lastCacheUpdate # NULL
  /\ now - lastCacheUpdate[1] = CACHE_TTL
  /\ ~isUpdatingCache
  /\ tasks = EmptyBag
  /\ lastDone = "cold-ok"

\* C5 (as claimed): a read that arrives while a refresh scrape is in flight
\* and a cache is present does not wait (it suspends at no scrape) and its
\* response is computed from the snapshot that was written last.
LastWritten == cacheFile[1].projects

C5_ReadsServeLastWritten ==
  [][(RefreshInFlight > 0 /\ CachePresent) =>
       /\ CachedRead => InFlight({"cold"})' = InFlight({"cold"})
       /\ ListAllCached =>
            ListAllCachedResponse = Response(200, sortProjectsByDate(LastWritten))
       /\ \A id \in RequestIds :
            (GetByIdFromFile(id) /\ FindById(LastWritten, id) # NULL) =>
               GetByIdFromFileResponse(id) = Response(200, FindById(LastWritten, id))
       /\ \A n \in RequestPersons :
            ByPersonCached(n) =>
               FilterCachedResponse("by-person", n) =
                 Response(200, ViewOf("by-person", "", n, LastWritten))
       /\ TagsCached =>
            FilterCachedResponse("tags", <<>>) =
              Response(200, ViewOf("tags", "", <<>>, LastWritten))
       /\ \A g \in RequestTags :
            ByTagCached(g) =>
               FilterCachedResponse("by-tag", g) =
                 Response(200, ViewOf("by-tag", "", g, LastWritten))]_vars

\* C6: when fetchProjectsFromRemote throws in updateCacheInBackground, the
\* memory copy, lastCacheUpdate, the three file encodings and the share images
\* stay as they were, and no suspended request is answered by that step.
C6_FailedRefreshChangesNothing ==
  [][\A t \in Suspended :
       BgRefreshFails(t) =>
         /\ UNCHANGED <<projectsCache, lastCacheUpdate, cacheFile, sortedFile,
                        projectFiles, shareFiles>>
         /\ tasks' = Resume(t)]_vars

C6_Witness ==
  /\ lastDone = "bg-failed"
  /\ CachePresent
  /\ shareFiles["homepage"] # NULL
  /\ ~isUpdatingCache

\* C7: when a background refresh or an admin refresh succeeds, lastCacheUpdate
\* becomes the completion time, the metadata file, the sorted file and the
\* per-id files are written from the scraped records, and no share image is
\* left.
SnapshotWritten(records) ==
  /\ cacheFile' = Some([projects |-> records, lastUpdate |-> now])
  /\ sortedFile' = Some(sortProjectsByDate(records))
  /\ \A i \in DOMAIN records : projectFiles'[records[i].id] = Some(records[i])

C7_RefreshWritesAndInvalidates ==
  [][\A t \in Suspended : \A v \in 1..MaxVer :
       (BgRefreshSucceedsWith(t, v) \/ AdminRefreshSucceedsWith(t, v)) =>
         /\ lastCacheUpdate' = Some(now)
         /\ SnapshotWritten(ScrapeResult(v))
         /\ \A n \in ShareNames : shareFiles'[n] = NULL]_vars

\* A refresh of an older snapshot has just ended well
C7_Witness ==
  /\ lastDone \in {"bg-ok", "admin-ok"}
  /\ CachePresent
  /\ lastCacheUpdate = Some(now)
  /\ now > 1
  /\ \A n \in ShareNames : shareFiles[n] = NULL

\* C8: whenever isUpdatingCache is true it is false again later, whether the
\* scrape returns or throws.
C8_FlagEventuallyCleared == isUpdatingCache ~> ~isUpdatingCache

C8_Witness ==
  /\ ~isUpdatingCache
  /\ lastDone \in {"bg-failed", "admin-failed"}
  /\ RefreshInFlight = 0

\* C9 (as claimed): cold reads are single-flighted, at most one synchronous
\* fetch of a read route is in flight.
ColdReadsInFlight ==
  BagCardinality([t \in {u \in Suspended : u.kind = "cold" /\ u.route \in ReadRoutes}
                    |-> tasks[t]])

C9_ColdReadsSingleFlight == ColdReadsInFlight <= 1

\* C10: the cold branch of a read route, once its scrape has returned, sets
\* lastCacheUpdate, writes the snapshot through and answers from the scraped
\* records; afterwards the cache is present.
C10_ColdReadPopulates ==
  [][\A t \in Suspended : \A v \in 1..MaxVer :
       (ColdFetchSucceedsWith(t, v) /\ t.route \in ReadRoutes) =>
         /\ lastCacheUpdate' = Some(now)
         /\ SnapshotWritten(ScrapeResult(v))
         /\ t.route # "list-all" => projectsCache' = Some(ScrapeResult(v))
         /\ t.route = "list-all" =>
              ColdFetchResponse(t.route, "", <<>>, v) = Response(200, sortedFile'[1])
         /\ t.route = "get-by-id" =>
              \A id \in RequestIds :
                 ColdFetchResponse(t.route, id, <<>>, v) =
                   FindResponse(id, cacheFile'[1].projects)
         /\ t.route \in FilterRoutes =>
              \A n \in RequestTags \cup RequestPersons :
                 ColdFetchResponse(t.route, "", n, v) =
                   Response(200, ViewOf(t.route, "", n, cacheFile'[1].projects))
         /\ CachePresent']_vars

C10_Witness ==
  /\ lastDone = "cold-ok"
  /\ CachePresent
  /\ lastCacheUpdate = Some(now)
  /\ projectsCache = Some(cacheFile[1].projects)

\* C11: with no cache at all (no memory copy, no cache file of any encoding),
\* a read route whose scrape throws answers 500, whatever its parameter, and
\* leaves the cache absent and lastCacheUpdate as it was.
NoCacheAtAll ==
  /\ projectsCache = NULL
  /\ cacheFile = NULL
  /\ sortedFile = NULL
  /\ \A id \in ProjectIds : projectFiles[id] = NULL

C11_ColdFailureAnswers500 ==
  [][\A t \in Suspended :
       (ColdFetchFails(t) /\ t.route \in ReadRoutes /\ NoCacheAtAll) =>
         /\ \A id \in RequestIds : \A n \in RequestTags \cup RequestPersons :
               ColdFetchFailsResponse(t.route, id, n) = Response(500, <<>>)
         /\ NoCacheAtAll'
         /\ lastCacheUpdate' = lastCacheUpdate]_vars

C11_Witness ==
  /\ lastDone = "cold-failed"
  /\ NoCacheAtAll
  /\ lastCacheUpdate = NULL
  /\ tasks = EmptyBag

\* C12 (as claimed): a read route (project prerender included) answers 5xx
\* only when no cache is available and the scrape of the same request fails:
\* a request whose scrape returned is not answered 5xx, a request whose scrape
\* threw while a cache is available is not answered 5xx, and a request
\* answered from the cache is not answered 5xx.
CacheAvailable == projectsCache # NULL \/ cacheFile # NULL

C12_ErrorOnlyWithoutCacheAndOrigin ==
  [][/\ \A t \in Suspended : \A id \in RequestIds :
          \A n \in RequestTags \cup RequestPersons :
            /\ \A v \in 1..MaxVer :
                 ColdFetchSucceedsWith(t, v) =>
                   ColdFetchResponse(t.route, id, n, v).status < 500
            /\ (ColdFetchFails(t) /\ CacheAvailable) =>
                   ColdFetchFailsResponse(t.route, id, n).status < 500
     /\ ListAllCached => ListAllCachedResponse.status < 500
     /\ \A id \in RequestIds :
          /\ GetByIdFromFile(id) => GetByIdFromFileResponse(id).status < 500
          /\ GetByIdFromMemory(id) => GetByIdFromMemoryResponse(id).status < 500
          /\ ProjectPrerenderCached(id) =>
               ProjectPrerenderCachedResponse(id).status < 500]_vars

\* C13 (as claimed): when a background refresh, an admin refresh or the cold
\* fetch of a read route has succeeded, the snapshot every read path serves is
\* exactly the scrape's result: what getProjects() returns to by-tag,
\* by-person and /tags, the projects of the metadata file, and the sorted file.
SuccessfulRefresh(t, v) ==
  \/ BgRefreshSucceedsWith(t, v)
  \/ AdminRefreshSucceedsWith(t, v)
  \/ (ColdFetchSucceedsWith(t, v) /\ t.route \in ReadRoutes)

C13_RefreshReplacesSnapshot ==
  [][\A t \in Suspended : \A v \in 1..MaxVer :
       SuccessfulRefresh(t, v) =>
         /\ ProjectsAfterGet' = Some(ScrapeResult(v))
         /\ cacheFile'[1].projects = ScrapeResult(v)
         /\ sortedFile' = Some(sortProjectsByDate(ScrapeResult(v)))]_vars

\* C14 (as claimed): after saveCacheToFile(records) the three encodings
\* agree: the metadata file's projects are records, the sorted file is
\* sortProjectsByDate(records), and for every r of records the per-id file
\* named r.id holds r.
C14_EncodingsAgree ==
  [][\A t \in Suspended : \A records \in ScrapeLists :
       AdminRefreshReturns(t, records) =>
         /\ cacheFile'[1].projects = records
         /\ sortedFile' = Some(sortProjectsByDate(records))
         /\ \A i \in DOMAIN records :
              projectFiles'[records[i].id] = Some(records[i])]_vars

\* C15 (as claimed): after saveCacheToFile(records), a get-by-id read of r.id
\* is answered with r, for every r of records.
C15_SaveThenGetById ==
  [][\A t \in Suspended : \A records \in ScrapeLists :
       AdminRefreshReturns(t, records) =>
         \A i \in DOMAIN records :
            /\ PerIdFile(records[i].id)' # NULL
            /\ GetByIdFromFileResponse(records[i].id)' =
                 Response(200, Some(records[i]))]_vars

\* C16: a successful refresh whose scrape has no record of id X leaves the
\* per-id file of X as it was: a get-by-id read of X is answered as before the
\* refresh, while the sorted file that list-all serves has no record of X.
C16_PerIdFilesKept ==
  [][\A t \in Suspended : \A v \in 1..MaxVer : \A id \in ProjectIds :
       (SuccessfulRefresh(t, v) /\ FindById(ScrapeResult(v), id) = NULL) =>
         /\ projectFiles'[id] = projectFiles[id]
         /\ GetByIdFromFileResponse(id)' = GetByIdFromFileResponse(id)
         /\ FindById(sortedFile'[1], id) = NULL]_vars

\* Project b was in an earlier snapshot and is not in the one a background
\* refresh has just written
C16_Witness ==
  /\ lastDone = "bg-ok"
  /\ sortedFile # NULL
  /\ FindById(sortedFile[1], "b") = NULL
  /\ PerIdFile("b") # NULL
  /\ GetByIdFromFileResponse("b") = Response(200, Some(StoredRecord(ProjectAt("b", 1))))

\* C17 (as claimed): a share image that isShareImageCacheValid accepts was
\* composed from the current snapshot: its images are the primary images of
\* the snapshot in the metadata file, also when the generation of the image
\* overlapped a refresh.
ShareImageContent(projects) ==
  [i \in DOMAIN ShareImageInputs(projects) |->
     ShareImageInputs(projects)[i].primaryImage]

C17_ValidShareImageIsCurrent ==
  isShareImageCacheValid("homepage") =>
    /\ cacheFile # NULL
    /\ ShareImageContent(shareFiles["homepage"][1].from) =
         ShareImageContent(cacheFile[1].projects)

\* C18: isCacheStale is true exactly when lastCacheUpdate is null or the age
\* now - lastCacheUpdate is more than 5 minutes (300000 ms), so not at an age
\* of exactly 5 minutes; and a request that calls updateCacheInBackground with
\* no refresh in flight starts a scrape exactly in these cases.
OlderThanFiveMinutes ==
  lastCacheUpdate = NULL \/ now - lastCacheUpdate[1] > 5 * 60 * 1000

C18_StaleExactlyBeyondTtl ==
  /\ [](isCacheStale(lastCacheUpdate, now) <=> OlderThanFiveMinutes)
  /\ [][(HomepagePrerender /\ ~isUpdatingCache /\ CanSuspend) =>
          (tasks' # tasks <=> OlderThanFiveMinutes)]_vars

C18_Witness ==
  /\ lastDone = "bg-ok"
  /\ lastCacheUpdate # NULL
  /\ now - lastCacheUpdate[1] = 5 * 60 * 1000
  /\ ~isCacheStale(lastCacheUpdate, now)
  /\ ~isUpdatingCache

\* C19 (as claimed): the step in which a background refresh fails starts no
\* scrape and leaves lastCacheUpdate as it was, a background scrape is started
\* only by a request that calls updateCacheInBackground, and the next such
\* request after the failure starts a new scrape.
AfterFailedRefresh == lastDone = "bg-failed" /\ InFlight({"bg"}) = 0

FailureStartsNothing ==
  \A t \in Suspended : BgRefreshFails(t) =>
     /\ lastCacheUpdate' = lastCacheUpdate
     /\ ~isUpdatingCache'
     /\ InFlight({"bg"})' = 0
     /\ BagCardinality(tasks') < BagCardinality(tasks)

OnlyRequestsStartRefresh == InFlight({"bg"})' > InFlight({"bg"}) => CallsUpdate

KeyMatches(key) == expectedKey # "" /\ key = expectedKey

ProgramState ==
  <<projectsCache, lastCacheUpdate, isUpdatingCache, cacheFile, sortedFile,
    projectFiles, shareFiles, tasks>>

C20_AdminOnlyWithKey ==
  /\ [](\A k \in RequestKeys :
         /\ authenticateAdmin(k) = 0 <=> KeyMatches(k)
         /\ expectedKey = "" => AdminRejectedResponse(k).status = 500
         /\ (expectedKey # "" /\ k = "") => AdminRejectedResponse(k).status = 401
         /\ (expectedKey # "" /\ k # "" /\ k # expectedKey) =>
              AdminRejectedResponse(k).status = 403)
  /\ [][\A k \in RequestKeys :
          (AdminRefreshStarts(k) \/ AdminRefreshBusy(k)) => KeyMatches(k)]_vars
  /\ [][\A k \in RequestKeys :
          (~KeyMatches(k) /\ AdminRejected(k)) => UNCHANGED ProgramState]_vars
  /\ [][InFlight({"admin"})' > InFlight({"admin"}) => expectedKey # ""]_vars

C20_Witness ==
  /\ lastDone = "admin-403"
  /\ expectedKey # ""
  /\ CachePresent
  /\ lastCacheUpdate # NULL
  /\ InFlight({"admin"}) = 0
  /\ ~isUpdatingCache

\* C21: a call of fetchProjectsFromRemote throws exactly when the fetch of the
\* root listing throws or is answered with a status that is not ok; once the
\* listing is read, no failure of a manifest, a media listing or a media item
\* makes it throw, and it returns its list.
RootFails == origin.root.status # "200"

C21_ThrowsOnlyOnRootFailure ==
  /\ [](scrape.pc = "threw" => RootFails)
  /\ [](scrape.pc \in {"folders", "returned"} => ~RootFails)
  /\ [][scrape.pc = "idle" => (scrape'.pc = "threw" <=> RootFails)]_vars
  /\ [][scrape.pc = "folders" => scrape'.pc \in {"folders", "returned"}]_vars
  /\ []((scrape.pc = "folders" /\ scrape.next > Len(scrape.folders)) =>
          ENABLED ScrapeReturns)

C21_Witness ==
  /\ scrape.pc = "returned"
  /\ scrape.folders = <<FolderA, FolderB>>
  /\ origin.folders[FolderA].manifest.status = "rejected"
  /\ DateThrows(origin.folders[FolderB].manifest.date)
  /\ scrape.projects = <<>>

\* The manifest of a folder failed: its fetch threw, was not ok, or its body
\* is not valid JSON
ManifestFailed(folder) ==
  \/ folder.manifest.status # "200"
  \/ folder.manifest.json = "invalid"

\* The records of the result made for the k-th candidate folder: the result
\* of the loop's turns over the others, then over folder k
RECURSIVE RecordsThrough(_, _, _)
RecordsThrough(org, folders, k) ==
  IF k = 0 THEN <<>>
  ELSE IF PushesRecord(FolderAt(org, folders[k]))
    THEN Append(RecordsThrough(org, folders, k - 1),
                projectWithId(folders[k], FolderAt(org, folders[k])))
    ELSE RecordsThrough(org, folders, k - 1)

HasRecordFor(k) ==
  Len(RecordsThrough(origin, scrape.folders, k))
    = Len(RecordsThrough(origin, scrape.folders, k - 1)) + 1

\* C22: when the manifest of a listed folder fails, is not 2xx or is not valid
\* JSON, the returned list has no record for that folder and has a record for
\* every listed folder whose manifest succeeded, and the call does not throw.
C22_FailedManifestDropsOnlyItsFolder ==
  /\ [](scrape.pc = "threw" => RootFails)
  /\ [](scrape.pc = "returned" =>
          /\ scrape.projects = RecordsThrough(origin, scrape.folders, Len(scrape.folders))
          /\ \A k \in DOMAIN scrape.folders :
               HasRecordFor(k) <=> ~ManifestFailed(FolderAt(origin, scrape.folders[k])))

\* The manifest fetch succeeded and the listing of media/ threw or was not ok
MediaFailed(folder) ==
  /\ ~ManifestFailed(folder)
  /\ folder.media.status # "200"

\* The record made for the k-th candidate folder, when there is one
RecordFor(k) ==
  LET through == RecordsThrough(origin, scrape.folders, k)
  IN  through[Len(through)]

\* C23: a project whose manifest fetch succeeded and whose media listing
\* fetch failed or was not 2xx is kept in the result, with media = [] and
\* primaryImage = null.
C23_MediaFailureKeepsProject ==
  scrape.pc = "returned" =>
    /\ scrape.projects = RecordsThrough(origin, scrape.folders, Len(scrape.folders))
    /\ \A k \in DOMAIN scrape.folders :
         MediaFailed(FolderAt(origin, scrape.folders[k])) =>
           /\ HasRecordFor(k)
           /\ RecordFor(k).media = <<>>
           /\ RecordFor(k).primaryImage = NULL

\* The name a directory link stands for: its href without the final slash
\* (the comment at the call of replace: "Remove trailing slash")
WithoutTrailingSlash(href) == SubSeq(href, 1, Len(href) - 1)

\* The directory links of a listing other than ".", ".." and "_template", by
\* name and in listing order
DirectoryNames(hrefs) ==
  LET links == SelectSeq(hrefs, IsDirectoryLink)
      names == [i \in DOMAIN links |-> WithoutTrailingSlash(links[i])]
  IN  SelectSeq(names, LAMBDA n : n \notin {<<Dot>>, <<Dot, Dot>>, Template})

ListingParsed == scrape.pc \in {"folders", "returned"}

\* C24: the candidate folders are exactly the directory links of the root
\* listing other than ".", ".." and "_template", in listing order; the
\* listing a/, b/, _template/, ../ gives exactly a and b.
C24_CandidatesAreDirectoryLinks ==
  ListingParsed =>
    /\ scrape.folders = DirectoryNames(origin.root.hrefs)
    /\ origin.root.hrefs = <<HrefA, HrefB, HrefTemplate, HrefParent>> =>
         scrape.folders = <<FolderA, FolderB>>

\* The date the claim gives a record: YYYY-MM-DD of a date that parses, the
\* original value of one that does not, none when the manifest has none
NormalizedDate(date) ==
  IF date = NULL THEN NULL
  ELSE IF DateTime(date[1]) # NULL THEN Some(IsoDate(DateTime(date[1])[1]))
  ELSE date

ManifestParsed(folder) ==
  folder.manifest.status = "200" /\ folder.manifest.json = "object"

\* C25: every manifest whose fetch succeeded gives a record, whatever the
\* type or value of its date: YYYY-MM-DD for a date that parses, the original
\* value for one that does not, no date when it is missing.
C25_DateNeverDropsRecord ==
  scrape.pc = "returned" =>
    /\ scrape.projects = RecordsThrough(origin, scrape.folders, Len(scrape.folders))
    /\ \A k \in DOMAIN scrape.folders :
         LET folder == FolderAt(origin, scrape.folders[k])
         IN  ManifestParsed(folder) =>
               /\ HasRecordFor(k)
               /\ RecordFor(k).date = NormalizedDate(folder.manifest.date)

\* The day a record's date names, NULL when it has no date or one that does
\* not parse
DayOf(p) == IF HasDate(p) THEN DateTime(p.date[1]) ELSE NULL

\* Two records that the order by date does not tell apart
SameDate(p, q) ==
  \/ ~HasDate(p) /\ ~HasDate(q)
  \/ HasDate(p) /\ HasDate(q) /\ DayOf(p) = DayOf(q)

Rearrangements(n) ==
  {f \in [1..n -> 1..n] : \A i, j \in 1..n : i # j => f[i] # f[j]}

\* output is input in another order, newest first, the records without a
\* date last, records of the same date in their input order
SortedByDate(input, output) ==
  /\ Len(output) = Len(input)
  /\ \E f \in Rearrangements(Len(input)) :
       /\ \A i \in DOMAIN output : output[i] = input[f[i]]
       /\ \A i, j \in DOMAIN output :
            (i < j /\ SameDate(output[i], output[j])) => f[i] < f[j]
  /\ \A i, j \in DOMAIN output :
       i < j => /\ HasDate(output[j]) => HasDate(output[i])
                /\ (DayOf(output[i]) # NULL /\ DayOf(output[j]) # NULL)
                     => DayOf(output[i])[1] >= DayOf(output[j])[1]

\* C26: sortProjectsByDate returns its input in another order, by date
\* descending, every record without a date after every record with one,
\* records of equal dates and records without dates in their input order
\* (the sorted file against the metadata file, and the answer of a by-tag
\* read against the records it filtered).
C26_SortIsStableByDateDescending ==
  projectsCache # NULL =>
    /\ SortedByDate(cacheFile[1].projects, sortedFile[1])
    /\ \A tagName \in RequestTags :
         SortedByDate(filterProjectsByTag(projectsCache[1], tagName),
                      FilterCachedResponse("by-tag", tagName).body)

\* Two strings that are equal ignoring case (ASCII letters)
EqualIgnoringCase(s, t) ==
  /\ Len(s) = Len(t)
  /\ \A i \in DOMAIN s :
       \/ s[i] = t[i]
       \/ s[i] \in 65..90 /\ t[i] = s[i] + 32
       \/ s[i] \in 97..122 /\ t[i] = s[i] - 32

HasTag(p, tagName) == \E i \in DOMAIN p.tags : EqualIgnoringCase(p.tags[i], tagName)

TagsOf(projects) == [i \in DOMAIN projects |-> projects[i].tags]

\* C27: filterProjectsByTag(records, tag) is exactly the records with at
\* least one tag equal to the requested tag ignoring case (the whole tag, not
\* a part of it), in input order; for the tags [Glow], [glow], [GLOWING] and
\* the request Glow it is the first two records.
C27_TagFilterIsExactIgnoringCase ==
  ProjectsAfterGet # NULL =>
    \A tagName \in RequestTags :
      LET records == ProjectsAfterGet[1]
          found == filterProjectsByTag(records, tagName)
      IN  /\ found = SelectSeq(records, LAMBDA p : HasTag(p, tagName))
          /\ (tagName = Glow /\ TagsOf(records) = <<<<Glow>>, <<glow>>, <<GLOWING>>>>)
               => found = <<records[1], records[2]>>

\* A by-tag read has loaded the three records tagged Glow, glow and GLOWING,
\* and the filter gives the first two
C27_Witness ==
  /\ projectsCache # NULL
  /\ TagsOf(projectsCache[1]) = <<<<Glow>>, <<glow>>, <<GLOWING>>>>
  /\ filterProjectsByTag(projectsCache[1], Glow) = <<projectsCache[1][1], projectsCache[1][2]>>

\* C28: a refresh request answered 429 because a refresh is in flight changes
\* no cache state: isUpdatingCache stays true, and projectsCache,
\* lastCacheUpdate and the files are unchanged.
C28_BusyAnswerChangesNothing ==
  [][\A k \in RequestKeys :
       AdminRefreshBusy(k) =>
         UNCHANGED <<isUpdatingCache, memVars, diskVars, shareFiles>>]_vars

\* The version of the origin's content that the persisted snapshot holds
SnapshotVersion(file) == file[1].projects[1].title

\* C29: the cached snapshot never goes back to older origin data: of two
\* scrapes that overlap, the one that started later leaves its result in the
\* cache, so no write replaces a snapshot by one of an earlier version.
C29_SnapshotNeverRegresses ==
  [][(cacheFile # NULL /\ cacheFile' # NULL) =>
       SnapshotVersion(cacheFile') >= SnapshotVersion(cacheFile)]_vars

C31_SnapshotStaysPresent ==
  [][/\ (projectsCache # NULL /\ ~Restart) => projectsCache' # NULL
     /\ cacheFile # NULL => cacheFile' # NULL
     /\ sortedFile # NULL => sortedFile' # NULL
     /\ \A id \in ProjectIds : projectFiles[id] # NULL => projectFiles'[id] # NULL
     /\ (projectsCache # NULL \/ cacheFile # NULL)
          => (projectsCache' # NULL \/ cacheFile' # NULL)]_vars

\* A refresh has failed over a snapshot that is in memory and in the files
C31_Witness ==
  /\ lastDone \in {"bg-failed", "admin-failed"}
  /\ projectsCache # NULL
  /\ cacheFile # NULL
  /\ sortedFile # NULL
  /\ \E id \in ProjectIds : projectFiles[id] # NULL

\* The metadata file holds a snapshot written at most CACHE_TTL ago
PersistedWithinTtl ==
  /\ cacheFile # NULL
  /\ now - cacheFile[1].lastUpdate <= CACHE_TTL

\* C32: after a write-through and a restart, loadCacheMetadata restores
\* lastCacheUpdate from the metadata file, and the first by-tag, by-person or
\* all-tags read loads the persisted records; a read that arrives within
\* CACHE_TTL of the last write is answered from them and starts no scrape.
C32_RestartServesPersisted ==
  /\ [][(Restart /\ cacheFile # NULL) =>
          lastCacheUpdate' = Some(cacheFile[1].lastUpdate)]_vars
  /\ [][\A route \in FilterRoutes : \A pstr \in RequestTags \cup RequestPersons \cup {<<>>} :
          (FilterCached(route, pstr) /\ projectsCache = NULL /\ cacheFile # NULL) =>
            /\ projectsCache' = Some(cacheFile[1].projects)
            /\ lastCacheUpdate' = Some(cacheFile[1].lastUpdate)
            /\ FilterCachedResponse(route, pstr)
                 = Response(200, ViewOf(route, "", pstr, cacheFile[1].projects))
            /\ PersistedWithinTtl => (tasks' = tasks /\ isUpdatingCache' = isUpdatingCache)]_vars

\* A process restarted after a refresh wrote the snapshot has loaded it in a
\* read within CACHE_TTL of the write, and no scrape is in flight
C32_Witness ==
  /\ lastDone = "none"
  /\ PersistedWithinTtl
  /\ cacheFile[1].lastUpdate > 1 + MaxSkew
  /\ projectsCache = Some(cacheFile[1].projects)
  /\ lastCacheUpdate = Some(cacheFile[1].lastUpdate)
  /\ tasks = EmptyBag
  /\ ~isUpdatingCache

\* The names of the folders that the root listing links
ListedFolders ==
  {DirectoryNames(origin.root.hrefs)[i] : i \in DOMAIN DirectoryNames(origin.root.hrefs)}

\* C33: every record of a scrape result has an id that is the name of a
\* folder of the root listing, and the ids of one result are pairwise
\* distinct.
C33_IdsAreDistinctFolderNames ==
  scrape.pc = "returned" =>
    /\ \A i \in DOMAIN scrape.projects : scrape.projects[i].id \in ListedFolders
    /\ \A i, j \in DOMAIN scrape.projects :
         i # j => scrape.projects[i].id # scrape.projects[j].id

\* The type that goes with a lower-cased extension, "" for any other
TypeOfExtension(ext) ==
  IF ext \in {ExtJpg, ExtJpeg, ExtPng, ExtGif} THEN "image"
  ELSE IF ext \in {ExtMp4, ExtMov, ExtAvi, ExtWebm} THEN "video"
  ELSE IF ext = ExtMd THEN "notes"
  ELSE ""

\* The candidate folders that got a record and whose media listing was read
WithMedia ==
  {k \in DOMAIN scrape.folders :
     /\ HasRecordFor(k)
     /\ FolderAt(origin, scrape.folders[k]).media.status = "200"}

ListedIn(k) == FolderAt(origin, scrape.folders[k]).media.files

\* C34: the type of a listed media file depends on its lower-cased extension
\* only (.jpg .jpeg .png .gif image, .mp4 .mov .avi .webm video, .md notes),
\* and a file with any other extension is in no record's media.
C34_TypeByLowerCasedExtension ==
  scrape.pc = "returned" =>
    \A k \in WithMedia :
      LET media == RecordFor(k).media
      IN  /\ \A i \in DOMAIN media :
               /\ media[i].type = TypeOfExtension(toLowerCase(extname(media[i].filename)))
               /\ media[i].type # ""
          /\ {media[i].filename : i \in DOMAIN media}
               = {ListedIn(k)[i].filename : i \in
                    {j \in DOMAIN ListedIn(k) :
                       TypeOfExtension(toLowerCase(extname(ListedIn(k)[j].filename))) # ""}}

\* A record was made from a listing of 0.PNG and x.txt: its media is the one
\* image 0.PNG
C34_Witness ==
  /\ scrape.pc = "returned"
  /\ \E k \in WithMedia :
       /\ {ListedIn(k)[i].filename : i \in DOMAIN ListedIn(k)} = {Png0, TextTxt}
       /\ Len(RecordFor(k).media) = 1
       /\ RecordFor(k).media[1].filename = Png0
       /\ RecordFor(k).media[1].type = "image"

\* The image items of a record's media, in the order of media
ImageItems(media) == SelectSeq(media, LAMBDA m : m.type = "image")

\* C35: a record's primaryImage is null exactly when its media has no image
\* item; otherwise primaryImage.filename is the smallest image filename,
\* which is the filename of the first image item of media.
C35_PrimaryImageIsSmallestImage ==
  scrape.pc = "returned" =>
    \A k \in WithMedia :
      LET record == RecordFor(k)
          images == ImageItems(record.media)
      IN  /\ record.primaryImage = NULL <=> images = <<>>
          /\ images # <<>> =>
               /\ record.primaryImage[1].filename = images[1].filename
               /\ \A i \in DOMAIN images :
                    \/ images[i].filename = record.primaryImage[1].filename
                    \/ StrLess(record.primaryImage[1].filename, images[i].filename)

\* A record was made from the listing 1.jpg, 0.PNG in this order: its
\* primaryImage is 0.PNG, the first item of its media
C35_Witness ==
  /\ scrape.pc = "returned"
  /\ \E k \in WithMedia :
       /\ Len(ListedIn(k)) = 2
       /\ ListedIn(k)[1].filename = Jpg1
       /\ ListedIn(k)[2].filename = Png0
       /\ RecordFor(k).primaryImage # NULL
       /\ RecordFor(k).primaryImage[1].filename = Png0
       /\ RecordFor(k).media[1].filename = Png0

\* The filenames of the listing that have a media extension
ListedMediaNames(k) ==
  {ListedIn(k)[i].filename : i \in
     {j \in DOMAIN ListedIn(k) : MediaType(ListedIn(k)[j].filename) # ""}}

\* C36: the media items of every record are in ascending order of filename
\* by code unit, whatever their types and whatever the order of the listing.
C36_MediaAscendingByFilename ==
  scrape.pc = "returned" =>
    /\ \A r \in DOMAIN scrape.projects :
         LET media == scrape.projects[r].media
         IN  \A i, j \in DOMAIN media :
               i < j => \/ media[i].filename = media[j].filename
                        \/ StrLess(media[i].filename, media[j].filename)
    /\ \A k \in WithMedia :
         LET media == RecordFor(k).media
         IN  {media[i].filename : i \in DOMAIN media} = ListedMediaNames(k)

\* A record was made from the listing v.mp4, 0.PNG in this order: its media
\* is the image 0.PNG and then the video v.mp4
C36_Witness ==
  /\ scrape.pc = "returned"
  /\ \E k \in WithMedia :
       /\ Len(ListedIn(k)) = 2
       /\ ListedIn(k)[1].filename = VideoMp4
       /\ ListedIn(k)[2].filename = Png0
       /\ Len(RecordFor(k).media) = 2
       /\ RecordFor(k).media[1].filename = Png0
       /\ RecordFor(k).media[1].type = "image"
       /\ RecordFor(k).media[2].filename = VideoMp4
       /\ RecordFor(k).media[2].type = "video"

\* The listing with every file resolving
AllResolve(files) == [i \in DOMAIN files |-> MediaFile(files[i].filename, TRUE)]

\* The record the same folder gives when every listed file resolves
RecordIfAllResolve(k) ==
  LET folder == FolderAt(origin, scrape.folders[k])
  IN  projectWithId(scrape.folders[k],
                    Folder(folder.manifest,
                           MediaListing("200", AllResolve(folder.media.files))))

\* C37: when the dimensions or the content of one media item cannot be
\* resolved, the item is still in media, with dimensions null (image, video)
\* or content "" (notes); the other items and the record are as they are when
\* the item resolves.
C37_FailedItemIsKept ==
  scrape.pc = "returned" =>
    \A k \in WithMedia :
      LET record == RecordFor(k)
          whole == RecordIfAllResolve(k)
      IN  /\ record.id = whole.id
          /\ record.date = whole.date
          /\ (record.primaryImage = NULL) = (whole.primaryImage = NULL)
          /\ record.primaryImage # NULL =>
               record.primaryImage[1].filename = whole.primaryImage[1].filename
          /\ Len(record.media) = Len(whole.media)
          /\ \A i \in DOMAIN record.media :
               LET item == record.media[i]
               IN  /\ item.filename = whole.media[i].filename
                   /\ item.type = whole.media[i].type
                   /\ IF FileNamed(ListedIn(k), item.filename).ok
                        THEN item = whole.media[i]
                        ELSE /\ item.dimensions = NULL
                             /\ item.content = <<>>

\* A record was made from a listing whose image 1.jpg does not resolve and
\* whose notes n.md resolve: both are in media, the image without dimensions,
\* the notes with their content
C37_Witness ==
  /\ scrape.pc = "returned"
  /\ \E k \in WithMedia :
       /\ Len(ListedIn(k)) = 2
       /\ MediaFile(Jpg1, FALSE) \in {ListedIn(k)[i] : i \in DOMAIN ListedIn(k)}
       /\ MediaFile(NotesMd, TRUE) \in {ListedIn(k)[i] : i \in DOMAIN ListedIn(k)}
       /\ Len(RecordFor(k).media) = 2
       /\ RecordFor(k).media[1].filename = Jpg1
       /\ RecordFor(k).media[1].dimensions = NULL
       /\ RecordFor(k).media[2].filename = NotesMd
       /\ RecordFor(k).media[2].content = NotesContent
       /\ RecordFor(k).primaryImage # NULL

\* C38: every tag of getAllTags(records) selects at least one record
\* (filterProjectsByTag(records, t) is not empty), and getAllTags(records) is
\* in ascending order without duplicates.
C38_EveryListedTagSelects ==
  projectsCache # NULL =>
    LET records == projectsCache[1]
        tags == getAllTags(records)
    IN  /\ FilterCachedResponse("tags", <<>>).body = tags
        /\ \A i \in DOMAIN tags : filterProjectsByTag(records, tags[i]) # <<>>
        /\ \A i, j \in DOMAIN tags : i < j => StrLess(tags[i], tags[j])

\* The part of C38 that holds: the tag names are ascending and distinct, and
\* each is the trimmed form of a non-empty tag of some record
C38_TagsAreSortedTrimmedTags ==
  projectsCache # NULL =>
    LET records == projectsCache[1]
        tags == getAllTags(records)
    IN  /\ \A i, j \in DOMAIN tags : i < j => StrLess(tags[i], tags[j])
        /\ \A i \in DOMAIN tags :
             \E r \in DOMAIN records : \E n \in DOMAIN records[r].tags :
               /\ records[r].tags[n] # <<>>
               /\ trim(records[r].tags[n]) = tags[i]

\* The homepage has no usable primary image: there is no snapshot file, or no
\* record of the snapshot file has a primaryImage
NoPrimaryImageForHomepage ==
  \/ getProjectsFromFile = NULL
  \/ ShareImageInputs(getProjectsFromFile[1]) = <<>>

\* C39: a share-image request whose scope has no usable primary image is
\* answered 400, starts no download or scrape, writes no share-image file and
\* leaves the snapshot state unchanged.
C39_NoPrimaryImageAnswers400 ==
  NoPrimaryImageForHomepage =>
    /\ HomepageShareImageResponse.status = 400
    /\ ~ENABLED HomepageShareImageStarts
    /\ ENABLED HomepageShareImageMissing

\* The part of C39 that holds: a request that finds no valid cached image and
\* no usable primary image is answered 400 and changes nothing
C39_MissingInputAnswers400 ==
  (NoPrimaryImageForHomepage /\ ~isShareImageCacheValid("homepage")) =>
    /\ HomepageShareImageResponse.status = 400
    /\ ~ENABLED HomepageShareImageStarts
    /\ ENABLED HomepageShareImageMissing

====
